---- MODULE Spec2Model ----
(***************************************************************************)
(* Model of the mesh gateway (dc_gateway.py) and its power manager         *)
(* (power_manager.py).                                                     *)
(*                                                                         *)
(* Granularity: one action per stretch of code between two suspension      *)
(* points of the asyncio loop (an await that really suspends), and one     *)
(* action per synchronous operator call.  Powers and thresholds are whole  *)
(* milliwatts; the balancer's float arithmetic is computed exactly over    *)
(* rationals <<num, den>>.  Wall-clock time is kept as elapsed-time        *)
(* counters (since, age) that an environment action advances.              *)
(***************************************************************************)
EXTENDS Integers, Sequences, FiniteSets, TLC

VARIABLES
    hasPM,            \* gateway._power_manager is not None
    nodes,            \* PowerManager.nodes : node id -> NodeState
    order,            \* insertion order of the keys of PowerManager.nodes
    threshold_mw,     \* PowerManager.threshold_mw (None when off)
    priority_node,    \* PowerManager.priority_node (None when unset)
    adjusting,        \* PowerManager._adjusting
    since,            \* time.monotonic() - PowerManager._last_adjustment, saturating
    force_evaluate,   \* PowerManager._force_evaluate
    poll_generation,  \* PowerManager._poll_generation
    polling,          \* PowerManager._polling
    needs_bootstrap,  \* PowerManager._needs_bootstrap
    paused,           \* PowerManager._paused (written by the supervisor only)
    client,           \* gateway.client: "none", "up" (is_connected) or "down"
    reconnecting,     \* gateway._reconnecting
    was_connected,    \* gateway._was_connected
    known_nodes,      \* gateway.known_nodes
    sensing_node_count,  \* gateway.sensing_node_count
    node_events,      \* gateway._node_events : node id -> waiter owning the latch
    evt,              \* per waiter: its threading.Event is set
    loops,            \* the poll_loop coroutines: position and locals
    dis,              \* the disable() coroutine: position and locals
    chunk_buf,        \* gateway._chunk_buf
    chunks,           \* notification frames still to be delivered
    emitted,          \* logical messages the handler has processed
    orig,             \* the message the peer chunked
    last_connected_address,  \* gateway._last_connected_address
    connected_device, \* gateway.connected_device (its address, NoAddr for None)
    sup,              \* the _auto_reconnect_loop coroutine: position and locals
    up,               \* gateway devices now advertising and connectable
    out,              \* frames written to the transport by the last step
    last              \* the operation the last step performed

pmVars   == <<hasPM, nodes, order, threshold_mw, priority_node, adjusting, since,
             force_evaluate, poll_generation, polling, needs_bootstrap, paused>>
gwVars   == <<client, reconnecting, was_connected, known_nodes, sensing_node_count,
             node_events, evt>>
procVars == <<loops, dis>>
chunkVars == <<chunk_buf, chunks, emitted, orig>>
supVars == <<last_connected_address, connected_device, sup, up>>
vars == <<pmVars, gwVars, procVars, chunkVars, supVars, out, last>>

(***************************************************************************)
(* Bounds of the model and program constants.                              *)
(***************************************************************************)
NumNodes == 3                      \* sensing nodes 1..NumNodes
NumLoops == 1                      \* poll_loop coroutines alive at once
NumLoopsPoll == 2                  \* poll_loop tasks alive at once in interactive mode
MaxGen == 1                        \* poll cycles explored
MaxGenBal == 2                     \* poll cycles explored by the balancing specification
NodeIds == 1..NumNodes
Loops == 1..NumLoops
PollLoops == 1..NumLoopsPoll
AllLoops == Loops \cup PollLoops

None == -1                         \* Python None for an optional number / id
ALL == 0                           \* the target "ALL"
NoWaiter == 0
DisWaiter == Cardinality(AllLoops) + 1   \* disable() as a waiter on response latches
Waiters == 1..DisWaiter

COOLDOWN == 5
STALE_TIMEOUT == 45
HEADROOM_MW == 500
PRIORITY_WEIGHT == 2
FALLBACK_MW_PER_PCT == 50
SYNC_TOL == 2
MAX_DUTY == 100

\* Inputs the environment and the operator may supply.
Readings == {<<80, 2000>>}                               \* <<duty %, power mW>>
ReadingsBal == [n \in {1, 2} |-> IF n = 1 THEN {<<80, 2000>>} ELSE {<<10, 250>>}]  \* 25 mW per %
ThresholdVals == {3000}
PctVals == {10}
PctValsBal == {10, 150}
ThresholdValsBal == {3000, 4500}
TickSteps == {STALE_TIMEOUT + 1}

Min(a, b) == IF a <= b THEN a ELSE b
Max(a, b) == IF a >= b THEN a ELSE b
Abs(a) == IF a < 0 THEN -a ELSE a

(***************************************************************************)
(* Exact rationals <<n, d>> with d > 0, standing for Python floats.        *)
(***************************************************************************)
RECURSIVE Gcd(_, _)
Gcd(a, b) == IF b = 0 THEN a ELSE Gcd(b, a % b)

Norm(r) ==
    LET g == Gcd(Abs(r[1]), r[2]) IN
    IF g = 0 THEN <<0, 1>> ELSE <<r[1] \div g, r[2] \div g>>

RInt(n) == <<n, 1>>
RAdd(a, b) == Norm(<<a[1] * b[2] + b[1] * a[2], a[2] * b[2]>>)
RSub(a, b) == Norm(<<a[1] * b[2] - b[1] * a[2], a[2] * b[2]>>)
RMul(a, b) == Norm(<<a[1] * b[1], a[2] * b[2]>>)
RDiv(a, b) == Norm(<<a[1] * b[2], a[2] * b[1]>>)       \* b > 0
RLt(a, b) == a[1] * b[2] < b[1] * a[2]
RLe(a, b) == a[1] * b[2] <= b[1] * a[2]
RMin(a, b) == IF RLe(a, b) THEN a ELSE b
RMax(a, b) == IF RLe(b, a) THEN a ELSE b
RAbs(a) == <<Abs(a[1]), a[2]>>

\* Python round(): to the nearest integer, ties to the even one (r >= 0).
Round(r) ==
    LET q == r[1] \div r[2]
        m == r[1] % r[2]
    IN IF 2 * m < r[2] THEN q
       ELSE IF 2 * m > r[2] THEN q + 1
       ELSE IF q % 2 = 0 THEN q ELSE q + 1

\* Sum of power / duty_value over the nodes of S (the estimates the fallback averages).
RECURSIVE SumMw(_, _)
SumMw(nd, S) ==
    IF S = {} THEN <<0, 1>>
    ELSE LET x == CHOOSE y \in S : TRUE
         IN RAdd(<<nd[x].power,
                   IF nd[x].commanded_duty > 0 THEN nd[x].commanded_duty ELSE nd[x].duty>>,
                 SumMw(nd, S \ {x}))

\* sum(ns.power for ns in ...)
RECURSIVE SumPower(_, _)
SumPower(nd, S) ==
    IF S = {} THEN 0
    ELSE LET x == CHOOSE y \in S : TRUE IN nd[x].power + SumPower(nd, S \ {x})

\* The members of a set of node ids in ascending numeric order.
RECURSIVE Sorted(_)
Sorted(S) ==
    IF S = {} THEN <<>>
    ELSE LET m == CHOOSE x \in S : \A y \in S : x <= y IN <<m>> \o Sorted(S \ {m})

SeqToSet(s) == {s[i] : i \in 1..Len(s)}
Put(f, k, v) == [x \in DOMAIN f \cup {k} |-> IF x = k THEN v ELSE f[x]]

(***************************************************************************)
(* NodeState and the sensor hook.                                          *)
(***************************************************************************)
NodeState ==
    [duty |-> 0, target_duty |-> 0, commanded_duty |-> 0, power |-> 0,
     age |-> 0, responsive |-> TRUE]

OnSensorDataAutoSync(nd, nid, duty, power) ==
    LET base == IF nid \in DOMAIN nd THEN nd[nid] ELSE NodeState
    IN Put(nd, nid, [base EXCEPT !.duty = duty, !.power = power, !.age = 0,
                                 !.responsive = TRUE,
                                 !.target_duty = duty])

OnSensorDataAlwaysSync(nd, nid, duty, power) ==
    LET base == IF nid \in DOMAIN nd THEN nd[nid] ELSE NodeState
    IN Put(nd, nid, [base EXCEPT !.duty = duty, !.power = power, !.age = 0,
                                 !.responsive = TRUE,
                                 !.commanded_duty = duty])

\* PowerManager.on_sensor_data
OnSensorData(nd, nid, duty, power) ==
    LET base == IF nid \in DOMAIN nd THEN nd[nid] ELSE NodeState
        ns1 == [base EXCEPT !.duty = duty, !.power = power, !.age = 0,
                            !.responsive = TRUE]
        ns2 == IF threshold_mw = None
               THEN [ns1 EXCEPT !.commanded_duty = duty]
               ELSE ns1
    IN Put(nd, nid, ns2)

\* PowerManager.set_target_duty
SetTargetDuty(nd, nid, duty) ==
    LET base == IF nid \in DOMAIN nd THEN nd[nid] ELSE NodeState
    IN Put(nd, nid, [base EXCEPT !.target_duty = duty, !.commanded_duty = duty])

RECURSIVE SetTargetAll(_, _, _)
SetTargetAll(nd, S, duty) ==
    IF S = {} THEN nd
    ELSE LET x == CHOOSE y \in S : TRUE
         IN SetTargetAll(SetTargetDuty(nd, x, duty), S \ {x}, duty)

\* Keys appended to the dict by an update, in the order the code inserts them.
Appended(ord, nd2) == ord \o Sorted(DOMAIN nd2 \ SeqToSet(ord))

(***************************************************************************)
(* The balancer's pure computations.                                       *)
(***************************************************************************)
DutyValue(ns) == IF ns.commanded_duty > 0 THEN ns.commanded_duty ELSE ns.duty
HasData(ns) == DutyValue(ns) > 0 /\ ns.power > 0
MwOf(ns) == <<ns.power, DutyValue(ns)>>

\* An estimate that prefers the duty the sensor reports.
EstimateDutyFirst(nd, nid, resp) ==
    LET dv(ns) == IF ns.duty > 0 THEN ns.duty ELSE ns.commanded_duty
        has(ns) == dv(ns) > 0 /\ ns.power > 0
    IN IF has(nd[nid]) THEN Norm(<<nd[nid].power, dv(nd[nid])>>)
       ELSE RInt(FALLBACK_MW_PER_PCT)

\* PowerManager._estimate_mw_per_pct
EstimateMwPerPct(nd, nid, resp) ==
    IF HasData(nd[nid]) THEN Norm(MwOf(nd[nid]))
    ELSE LET S == {m \in resp : HasData(nd[m])}
         IN IF S # {} THEN RDiv(SumMw(nd, S), RInt(Cardinality(S)))
            ELSE RInt(FALLBACK_MW_PER_PCT)

CeilingOf(ns) == IF ns.target_duty > 0 THEN ns.target_duty ELSE MAX_DUTY
Current(ns) == IF ns.commanded_duty > 0 THEN ns.commanded_duty ELSE ns.duty

\* A nudge that truncates the ideal duty.
NewDutyTruncated(nd, nid, share, resp) ==
    LET ideal == RDiv(share, EstimateMwPerPct(nd, nid, resp))
        clamped == RMax(RInt(0), RMin(RInt(CeilingOf(nd[nid])), ideal))
    IN Max(0, Min(MAX_DUTY, clamped[1] \div clamped[2]))

\* PowerManager._nudge_node, lines 468-487: the duty the nudge would command
NewDuty(nd, nid, share, resp) ==
    LET ideal == RDiv(share, EstimateMwPerPct(nd, nid, resp))
        clamped == RMax(RInt(0), RMin(RInt(CeilingOf(nd[nid])), ideal))
    IN Max(0, Min(MAX_DUTY, Round(clamped)))

(***************************************************************************)
(* Initial state: the gateway is connected, no power manager exists yet    *)
(* (it is constructed by the first threshold command), nothing is running. *)
(***************************************************************************)
\* The locals of a poll_loop coroutine: its position pc; of a balancer run
\* the responsive snapshot resp, the nodes queue still to nudge, the
\* priority node pri and the shares; the node cur being nudged or probed
\* and the duty newd sent to it; n0, the size of known_nodes when the
\* bootstrap began to iterate over it; sent, what became of the nudge's
\* DUTY write (set_duty's result, which _nudge_node does not look at).
IdleLoop ==
    [pc |-> "idle", resp |-> {}, queue |-> <<>>, pri |-> None,
     pshare |-> <<0, 1>>, oshare |-> <<0, 1>>, cur |-> None, newd |-> 0,
     n0 |-> 0, sent |-> "none"]

IdleDis == [pc |-> "idle", idx |-> 0, n0 |-> 0]

\* Addresses of the gateway devices in range; the gateway starts connected
\* to the first.  NoAddr stands for None.
Addrs == {"A", "B", "C"}
FirstAddr == "A"
NoAddr == "none"

IdleSup ==
    [pc |-> "sleep", devices |-> <<>>, dead |-> NoAddr, pass |-> 1, idx |-> 0,
     attempts |-> <<>>]

InitCommon ==
    /\ hasPM = FALSE
    /\ nodes = <<>>
    /\ order = <<>>
    /\ threshold_mw = None
    /\ priority_node = None
    /\ adjusting = FALSE
    /\ since = COOLDOWN
    /\ force_evaluate = FALSE
    /\ poll_generation = 0
    /\ polling = FALSE
    /\ needs_bootstrap = FALSE
    /\ paused = FALSE
    /\ client = "up"
    /\ reconnecting = FALSE
    /\ was_connected = TRUE
    /\ known_nodes = {}
    /\ node_events = [n \in NodeIds |-> NoWaiter]
    /\ evt = [w \in Waiters |-> FALSE]
    /\ loops = [l \in AllLoops |-> IdleLoop]
    /\ dis = IdleDis
    /\ chunk_buf = <<>>
    /\ emitted = <<>>
    /\ last_connected_address = FirstAddr
    /\ connected_device = FirstAddr
    /\ sup = IdleSup
    /\ up = {FirstAddr}
    /\ out = <<>>
    /\ last = "init"

Init ==
    /\ InitCommon
    /\ sensing_node_count = 0
    /\ chunks = <<>>
    /\ orig = <<>>

(***************************************************************************)
(* Command path of the gateway.                                            *)
(***************************************************************************)
Frame(target, verb, value) == <<target, verb, value>>

SendCommandNoReconnectCheck(frame) ==
    IF client # "up" THEN <<>> ELSE <<frame>>

\* DCMonitorGateway.send_command: the frames it writes (none when it refuses).
\* A write that raises is the link having dropped before the write.
SendCommand(frame) ==
    IF reconnecting THEN <<>>
    ELSE IF client # "up" THEN <<>>
    ELSE <<frame>>

\* DCMonitorGateway.send_to_node
SendToNode(node, verb, value) == SendCommand(Frame(node, verb, value))

ClampPct(pct) == Max(0, Min(MAX_DUTY, pct))

\* DCMonitorGateway.set_duty, lines 399-411: the node map after an operator call
SetDutyTargets(nd, node, percent) ==
    IF node = ALL
    THEN IF DOMAIN nd # {} THEN SetTargetAll(nd, DOMAIN nd, percent)
         ELSE SetTargetAll(nd, known_nodes, percent)
    ELSE SetTargetDuty(nd, node, percent)

\* DCMonitorGateway.set_duty called by the operator (TUI, CLI)
SetDuty(node, pct) ==
    LET percent == ClampPct(pct)
        nd2 == IF hasPM THEN SetDutyTargets(nodes, node, percent) ELSE nodes
    IN /\ nodes' = nd2
       /\ order' = Appended(order, nd2)
       /\ out' = SendToNode(node, "DUTY", percent)
       /\ last' = "set_duty"
       /\ UNCHANGED <<hasPM, threshold_mw, priority_node, adjusting, since,
                      force_evaluate, poll_generation, polling, needs_bootstrap,
                      paused, gwVars, procVars, chunkVars, supVars>>

Verbs == {"RAMP", "STOP", "STATUS", "READ", "MONITOR"}

\* start_ramp, stop_node, read_status, read_sensor, start_monitor
OperatorCommand(node, verb) ==
    /\ out' = SendToNode(node, verb, None)
    /\ last' = "step"
    /\ UNCHANGED <<pmVars, gwVars, procVars, chunkVars, supVars>>

\* the raw escape hatch: send_command(parts[1].upper())
RawCommand(node, verb) ==
    /\ out' = SendCommand(Frame(node, verb, None))
    /\ last' = "step"
    /\ UNCHANGED <<pmVars, gwVars, procVars, chunkVars, supVars>>

(***************************************************************************)
(* Power manager: synchronous public API.                                  *)
(***************************************************************************)
SnapshotAlways(nd, first_enable) ==
    [n \in DOMAIN nd |->
        IF nd[n].duty > 0 THEN [nd[n] EXCEPT !.target_duty = nd[n].duty] ELSE nd[n]]

\* PowerManager.set_threshold, lines 60-70: the first-enable snapshot
Snapshot(nd, first_enable) ==
    IF first_enable
    THEN [n \in DOMAIN nd |->
            IF nd[n].duty > 0 THEN [nd[n] EXCEPT !.target_duty = nd[n].duty]
            ELSE nd[n]]
    ELSE nd

\* The threshold command: constructs the power manager on first use, calls
\* set_threshold and starts a poll_loop coroutine (if the bound leaves a slot
\* among slots).
SetThresholdIn(mw, slots) ==
    LET first_enable == threshold_mw = None
        free == {l \in slots : loops[l].pc = "idle"}
    IN /\ hasPM' = TRUE
       /\ threshold_mw' = mw
       /\ needs_bootstrap' = (DOMAIN nodes = {})
       /\ nodes' = Snapshot(nodes, first_enable)
       /\ force_evaluate' = TRUE
       /\ adjusting' = FALSE
       /\ IF free = {} THEN loops' = loops
          ELSE \E l \in free : loops' = [loops EXCEPT ![l].pc = "start"]
       /\ out' = <<>>
       /\ last' = IF first_enable THEN "set_threshold_first" ELSE "set_threshold"
       /\ UNCHANGED <<order, priority_node, since, poll_generation, polling, paused,
                      gwVars, dis, chunkVars, supVars>>

SetThreshold(mw) == SetThresholdIn(mw, Loops)

\* PowerManager.set_priority
SetPriority(nid) ==
    /\ hasPM
    /\ priority_node' = nid
    /\ force_evaluate' = TRUE
    /\ out' = <<>>
    /\ last' = "step"
    /\ UNCHANGED <<hasPM, nodes, order, threshold_mw, adjusting, since,
                   poll_generation, polling, needs_bootstrap, paused,
                   gwVars, procVars, chunkVars, supVars>>

\* PowerManager.clear_priority
ClearPriority ==
    /\ hasPM
    /\ priority_node # None
    /\ priority_node' = None
    /\ force_evaluate' = TRUE
    /\ out' = <<>>
    /\ last' = "step"
    /\ UNCHANGED <<hasPM, nodes, order, threshold_mw, adjusting, since,
                   poll_generation, polling, needs_bootstrap, paused,
                   gwVars, procVars, chunkVars, supVars>>

(***************************************************************************)
(* Notifications and time.                                                 *)
(***************************************************************************)
\* notification_handler on a parsed NODE<id>:DATA reading (lines 164-189);
\* notifications flow once start_notify has subscribed the handler
SensorReading(nid, duty, power) ==
    LET nd2 == IF hasPM THEN OnSensorData(nodes, nid, duty, power) ELSE nodes
        w == node_events[nid]
    IN /\ client = "up"
       /\ ~reconnecting
       /\ known_nodes' = known_nodes \cup {nid}
       /\ nodes' = nd2
       /\ order' = Appended(order, nd2)
       /\ evt' = IF w # NoWaiter THEN [evt EXCEPT ![w] = TRUE] ELSE evt
       /\ out' = <<>>
       /\ last' = "step"
       /\ UNCHANGED <<hasPM, threshold_mw, priority_node, adjusting, since,
                      force_evaluate, poll_generation, polling, needs_bootstrap,
                      paused, client, reconnecting, was_connected, node_events,
                      sensing_node_count, procVars, chunkVars, supVars>>

\* Time passes: every elapsed-time counter advances by d, saturating just
\* above the threshold it is compared with.
Tick(d) ==
    /\ \/ since < COOLDOWN
       \/ \E n \in DOMAIN nodes : nodes[n].age <= STALE_TIMEOUT
    /\ since' = Min(COOLDOWN, since + d)
    /\ nodes' = [n \in DOMAIN nodes |->
                   [nodes[n] EXCEPT !.age = Min(STALE_TIMEOUT + 1, @ + d)]]
    /\ out' = <<>>
    /\ last' = "step"
    /\ UNCHANGED <<hasPM, order, threshold_mw, priority_node, adjusting,
                   force_evaluate, poll_generation, polling, needs_bootstrap,
                   paused, gwVars, procVars, chunkVars, supVars>>

(***************************************************************************)
(* Power manager: evaluate-and-adjust and the balancer.                    *)
(***************************************************************************)
Budget == threshold_mw - HEADROOM_MW
Responsive(nd) == {n \in DOMAIN nd : nd[n].responsive}

\* abs(total_power - budget) < budget * 0.05
InDeadband(total, budget) == 20 * Abs(total - budget) < budget

AllAtCeiling(nd, R) ==
    \A n \in R : nd[n].target_duty > 0 /\ nd[n].commanded_duty >= nd[n].target_duty

AllInSync(nd, R) ==
    \A n \in R : nd[n].commanded_duty > 0 =>
                    Abs(nd[n].duty - nd[n].commanded_duty) <= SYNC_TOL

\* _evaluate_and_adjust, lines 414-423: forced evaluations resynchronise
Resync(nd, R) ==
    [n \in DOMAIN nd |->
        IF n \in R /\ nd[n].duty > 0
        THEN [nd[n] EXCEPT !.commanded_duty = nd[n].duty]
        ELSE nd[n]]

\* An evaluation that never skips for the cooldown.
EvalKindNoCooldown ==
    LET R == Responsive(nodes)
        total == SumPower(nodes, R)
    IN IF threshold_mw = None \/ adjusting THEN "skip_guard"
       ELSE IF R = {} THEN "skip_noresp"
       ELSE IF Budget <= 0 THEN "skip_budget"
       ELSE IF ~force_evaluate /\ InDeadband(total, Budget) THEN "skip_deadband"
       ELSE IF /\ ~force_evaluate
               /\ AllAtCeiling(nodes, R) /\ AllInSync(nodes, R)
               /\ total <= Budget
            THEN "skip_ceiling"
       ELSE "run"

\* An evaluation without the dead band.
EvalKindNoDeadband ==
    LET R == Responsive(nodes)
        total == SumPower(nodes, R)
    IN IF threshold_mw = None \/ adjusting THEN "skip_guard"
       ELSE IF ~force_evaluate /\ since < COOLDOWN THEN "skip_cooldown"
       ELSE IF R = {} THEN "skip_noresp"
       ELSE IF Budget <= 0 THEN "skip_budget"
       ELSE IF /\ ~force_evaluate
               /\ AllAtCeiling(nodes, R) /\ AllInSync(nodes, R)
               /\ total <= Budget
            THEN "skip_ceiling"
       ELSE "run"

\* _evaluate_and_adjust, lines 340-402: which way the evaluation goes
EvalKind ==
    LET R == Responsive(nodes)
        total == SumPower(nodes, R)
    IN IF threshold_mw = None \/ adjusting THEN "skip_guard"
       ELSE IF ~force_evaluate /\ since < COOLDOWN THEN "skip_cooldown"
       ELSE IF R = {} THEN "skip_noresp"
       ELSE IF Budget <= 0 THEN "skip_budget"
       ELSE IF ~force_evaluate /\ InDeadband(total, Budget) THEN "skip_deadband"
       ELSE IF /\ ~force_evaluate
               /\ AllAtCeiling(nodes, R) /\ AllInSync(nodes, R)
               /\ total <= Budget
            THEN "skip_ceiling"
       ELSE "run"

UsePriority(R) == priority_node # None /\ priority_node \in R

\* _balance_with_priority, lines 523-542: <<priority share, share of each other node>>
PriorityShares(nd, R, budget) ==
    LET non == R \ {priority_node}
        total_shares == PRIORITY_WEIGHT + Cardinality(non)
        full == <<budget * PRIORITY_WEIGHT, total_shares>>
        pri_max == RMul(RInt(CeilingOf(nd[priority_node])),
                        EstimateMwPerPct(nd, priority_node, R))
        pb == IF RLt(pri_max, full) /\ non # {} THEN pri_max ELSE Norm(full)
        remaining == RSub(RInt(budget), pb)
    IN <<pb, IF non # {} THEN RDiv(remaining, RInt(Cardinality(non))) ELSE RInt(0)>>

\* _balance_proportional, lines 506-507
EqualShare(R, budget) == Norm(<<budget, Cardinality(R)>>)

\* A dispatch that queues every node in ascending order in both modes.
DispatchSorted(lp, nd, R, budget) ==
    IF UsePriority(R)
    THEN LET sh == PriorityShares(nd, R, budget)
         IN [lp EXCEPT !.resp = R, !.pri = priority_node,
                       !.pshare = sh[1], !.oshare = sh[2],
                       !.queue = Sorted(R)]
    ELSE [lp EXCEPT !.resp = R, !.pri = None,
                    !.pshare = RInt(0), !.oshare = EqualShare(R, budget),
                    !.queue = Sorted(R)]

\* The locals of a balancer run dispatched over the responsive set R.
Dispatch(lp, nd, R, budget) ==
    IF UsePriority(R)
    THEN LET sh == PriorityShares(nd, R, budget)
         IN [lp EXCEPT !.resp = R, !.pri = priority_node,
                       !.pshare = sh[1], !.oshare = sh[2],
                       !.queue = <<priority_node>> \o Sorted(R \ {priority_node})]
    ELSE [lp EXCEPT !.resp = R, !.pri = None,
                    !.pshare = RInt(0), !.oshare = EqualShare(R, budget),
                    !.queue = Sorted(R)]

ShareOf(lp, nid) == IF nid = lp.pri THEN lp.pshare ELSE lp.oshare

\* _nudge_node, lines 476-489: the nudge returns None without a command
NudgeIsNoop(nd, nid, share, resp) ==
    LET ideal == RDiv(share, EstimateMwPerPct(nd, nid, resp))
        raw == Round(RMax(RInt(0), RMin(RInt(CeilingOf(nd[nid])), ideal)))
    IN \/ raw = Current(nd[nid])
       \/ Max(0, Min(MAX_DUTY, raw)) = Current(nd[nid])

RECURSIVE SkipNoops(_, _, _)
SkipNoops(nd, q, lp) ==
    IF q = <<>> THEN <<>>
    ELSE IF NudgeIsNoop(nd, Head(q), ShareOf(lp, Head(q)), lp.resp)
         THEN SkipNoops(nd, Tail(q), lp)
         ELSE q

\* The balancer runs on from the node map nd until its next suspension: it
\* skips the nudges that need no command; at the first that does it writes the
\* DUTY frame (or, refused, goes straight on to register its response latch);
\* with no node left it records the adjustment and the cycle sleeps.
RunBalancer(l, nd, lp, ne, ev) ==
    LET q == SkipNoops(nd, lp.queue, lp) IN
    IF q = <<>>
    THEN /\ since' = 0
         /\ adjusting' = FALSE
         /\ out' = <<>>
         /\ node_events' = ne
         /\ evt' = ev
         /\ loops' = [loops EXCEPT ![l] =
                         [lp EXCEPT !.pc = "interval", !.queue = <<>>, !.cur = None,
                                    !.sent = "none"]]
    ELSE LET nid == Head(q)
             nw == NewDuty(nd, nid, ShareOf(lp, nid), lp.resp)
             wr == SendToNode(nid, "DUTY", nw)
         IN /\ since' = since
            /\ adjusting' = IF loops[l].pc = "settle" THEN TRUE ELSE adjusting
            /\ out' = wr
            /\ IF wr = <<>>
               THEN /\ node_events' = [ne EXCEPT ![nid] = l]
                    /\ evt' = [ev EXCEPT ![l] = FALSE]
                    /\ loops' = [loops EXCEPT ![l] =
                          [lp EXCEPT !.pc = "nudge_wait", !.queue = Tail(q),
                                     !.cur = nid, !.newd = nw,
                                     !.sent = IF reconnecting THEN "reconnecting"
                                              ELSE "not_connected"]]
               ELSE /\ node_events' = ne
                    /\ evt' = ev
                    /\ loops' = [loops EXCEPT ![l] =
                          [lp EXCEPT !.pc = "writing", !.queue = Tail(q),
                                     !.cur = nid, !.newd = nw, !.sent = "written"]]

\* A staleness scan that marks every node, whatever its age.
MarkStaleAll(nd) == [n \in DOMAIN nd |-> [nd[n] EXCEPT !.responsive = FALSE]]

\* _mark_stale_nodes
MarkStale(nd) ==
    [n \in DOMAIN nd |->
        IF nd[n].age > STALE_TIMEOUT THEN [nd[n] EXCEPT !.responsive = FALSE]
        ELSE nd[n]]

(***************************************************************************)
(* Power manager: the discovery bootstrap.                                 *)
(***************************************************************************)
\* The orders in which a set may be iterated (known_nodes is a Python set of
\* strings: its iteration order is not defined by the program).
SetOrders(S) ==
    {q \in [1..Cardinality(S) -> S] : \A i, j \in DOMAIN q : i # j => q[i] # q[j]}

\* range(1, count + 1)
ProbeRange(count) == [i \in 1..count |-> i]

\* The addresses of q from the first one the loop does not skip because it is
\* in the node map already (lines 243 and 253-255)
RECURSIVE SkipInMap(_, _)
SkipInMap(nd, q) ==
    IF q = <<>> THEN <<>>
    ELSE IF Head(q) \in DOMAIN nd THEN SkipInMap(nd, Tail(q))
    ELSE q

\* _bootstrap_discovery runs on over the addresses q until its next
\* suspension.  mode is "seed" in the loop over known_nodes (lines 242-245)
\* and "probe" in the loop over 1..count (lines 249-261), which returns when
\* the threshold is gone.  At the first address not in the node map it
\* writes the READ (or, refused, goes straight on to register its response
\* latch); with no address left it returns and poll_loop sleeps 2 s.
BootContinue(l, lp, mode, q, ne, ev) ==
    LET q1 == IF mode = "probe" /\ threshold_mw = None THEN <<>>
              ELSE SkipInMap(nodes, q)
    IN IF q1 = <<>>
       THEN /\ loops' = [loops EXCEPT ![l] =
                            [lp EXCEPT !.pc = "post_boot", !.queue = <<>>, !.cur = None]]
            /\ out' = <<>>
            /\ node_events' = ne
            /\ evt' = ev
       ELSE LET nid == Head(q1)
                wr == SendToNode(nid, "READ", None)
            IN /\ out' = wr
               /\ IF wr = <<>>
                  THEN /\ node_events' = [ne EXCEPT ![nid] = l]
                       /\ evt' = [ev EXCEPT ![l] = FALSE]
                       /\ loops' = [loops EXCEPT ![l] =
                             [lp EXCEPT !.pc = IF mode = "seed" THEN "seed_wait"
                                              ELSE "probe_wait",
                                        !.queue = Tail(q1),
                                        !.cur = nid]]
                  ELSE /\ node_events' = ne
                       /\ evt' = ev
                       /\ loops' = [loops EXCEPT ![l] =
                             [lp EXCEPT !.pc = IF mode = "seed" THEN "seed_writing"
                                              ELSE "probe_writing",
                                        !.queue = Tail(q1),
                                        !.cur = nid]]

\* _bootstrap_discovery, lines 232-249: entry
Bootstrap(l) ==
    LET count == sensing_node_count
        lp == [loops[l] EXCEPT !.n0 = Cardinality(known_nodes)]
    IN IF count = 0
       THEN /\ loops' = [loops EXCEPT ![l].pc = "post_boot"]
            /\ out' = <<>>
            /\ UNCHANGED <<node_events, evt>>
       ELSE IF Cardinality(known_nodes) >= count
       THEN \E q \in SetOrders(known_nodes) :
               BootContinue(l, lp, "seed", q, node_events, evt)
       ELSE BootContinue(l, lp, "probe", ProbeRange(count), node_events, evt)

\* _bootstrap_discovery lines 244-245 and 256-257: the READ write has
\* completed; _wait_node_response registers its latch
BootWritten(l) ==
    /\ loops[l].pc \in {"seed_writing", "probe_writing"}
    /\ node_events' = [node_events EXCEPT ![loops[l].cur] = l]
    /\ evt' = [evt EXCEPT ![l] = FALSE]
    /\ loops' = [loops EXCEPT ![l].pc =
                    IF loops[l].pc = "seed_writing" THEN "seed_wait" ELSE "probe_wait"]
    /\ out' = <<>>
    /\ last' = "step"
    /\ UNCHANGED <<pmVars, client, reconnecting, was_connected, known_nodes,
                   sensing_node_count, dis, chunkVars, supVars>>

\* _wait_node_response returns and pops the latch; the bootstrap goes on to
\* its next address.  A known_nodes set that grew during the wait makes the
\* set iterator of line 242 raise RuntimeError, which ends poll_loop there
\* (it catches CancelledError only).
BootWaitDone(l) ==
    LET lp == loops[l]
        ne1 == [node_events EXCEPT ![lp.cur] = NoWaiter]
        ev1 == [evt EXCEPT ![l] = FALSE]
    IN /\ lp.pc \in {"seed_wait", "probe_wait"}
       /\ last' = "step"
       /\ IF lp.pc = "seed_wait" /\ Cardinality(known_nodes) # lp.n0
          THEN /\ loops' = [loops EXCEPT ![l] = IdleLoop]
               /\ out' = <<>>
               /\ node_events' = ne1
               /\ evt' = ev1
          ELSE BootContinue(l, lp, IF lp.pc = "seed_wait" THEN "seed" ELSE "probe",
                            lp.queue, ne1, ev1)
       /\ UNCHANGED <<pmVars, client, reconnecting, was_connected, known_nodes,
                      sensing_node_count, dis, chunkVars, supVars>>

(***************************************************************************)
(* Power manager: the poll_loop coroutine.                                 *)
(***************************************************************************)
\* A cycle that writes the group READ whatever the node map holds.
CycleStepAlwaysReads(l, setPolling, cap) ==
    IF threshold_mw = None
    THEN /\ polling' = FALSE
         /\ loops' = [loops EXCEPT ![l] = IdleLoop]
         /\ out' = <<>>
         /\ UNCHANGED poll_generation
    ELSE /\ poll_generation < cap
         /\ poll_generation' = poll_generation + 1
         /\ polling' = IF setPolling THEN TRUE ELSE polling
         /\ out' = SendToNode(ALL, "READ", None)
         /\ loops' = [loops EXCEPT ![l].pc = "wait_resp"]

\* poll_loop, lines 282-288 up to the next suspension: the while test, then
\* _poll_all_nodes (generation bump and the group READ).  With an empty node
\* map nothing is written, both response waits return at once, the staleness
\* scan finds nothing and the coroutine sleeps in the settle gap.
CycleStep(l, setPolling, cap) ==
    IF threshold_mw = None
    THEN /\ polling' = FALSE
         /\ loops' = [loops EXCEPT ![l] = IdleLoop]
         /\ out' = <<>>
         /\ UNCHANGED poll_generation
    ELSE /\ poll_generation < cap
         /\ poll_generation' = poll_generation + 1
         /\ polling' = IF setPolling THEN TRUE ELSE polling
         /\ IF DOMAIN nodes = {}
            THEN /\ out' = <<>>
                 /\ loops' = [loops EXCEPT ![l].pc = "settle"]
            ELSE /\ out' = SendToNode(ALL, "READ", None)
                 /\ loops' = [loops EXCEPT ![l].pc = "wait_resp"]

\* poll_loop, lines 266-282: entry.  With the bootstrap flag set the
\* coroutine clears it and runs _bootstrap_discovery, then sleeps 2 s before
\* it starts cycling.
PollLoopStart(l, cap) ==
    /\ loops[l].pc = "start"
    /\ last' = "step"
    /\ IF polling
       THEN /\ loops' = [loops EXCEPT ![l].pc = "guard"]
            /\ out' = <<>>
            /\ UNCHANGED <<polling, poll_generation, needs_bootstrap, node_events, evt>>
       ELSE IF needs_bootstrap
       THEN /\ needs_bootstrap' = FALSE
            /\ Bootstrap(l)
            /\ UNCHANGED <<polling, poll_generation>>
       ELSE /\ CycleStep(l, TRUE, cap)
            /\ UNCHANGED <<needs_bootstrap, node_events, evt>>
    /\ UNCHANGED <<hasPM, nodes, order, threshold_mw, priority_node, adjusting, since,
                   force_evaluate, paused, client, reconnecting, was_connected,
                   known_nodes, sensing_node_count, dis, chunkVars, supVars>>

\* poll_loop, lines 270-276: the re-entry guard wakes from a 0.1 s sleep; it
\* goes on if _polling has cleared, sleeps again, or gives up after the tenth.
GuardCheck(l, cap) ==
    /\ loops[l].pc = "guard"
    /\ last' = "step"
    /\ IF ~polling
       THEN IF needs_bootstrap
            THEN /\ needs_bootstrap' = FALSE
                 /\ Bootstrap(l)
                 /\ UNCHANGED <<polling, poll_generation>>
            ELSE /\ CycleStep(l, TRUE, cap)
                 /\ UNCHANGED <<needs_bootstrap, node_events, evt>>
       ELSE /\ loops' = [loops EXCEPT ![l] = IdleLoop]
            /\ out' = <<>>
            /\ UNCHANGED <<polling, poll_generation, needs_bootstrap, node_events, evt>>
    /\ UNCHANGED <<hasPM, nodes, order, threshold_mw, priority_node, adjusting, since,
                   force_evaluate, paused, client, reconnecting, was_connected,
                   known_nodes, sensing_node_count, dis, chunkVars, supVars>>

\* poll_loop, lines 281-284: the sleep after the bootstrap ends
PostBoot(l, cap) ==
    /\ loops[l].pc = "post_boot"
    /\ last' = "step"
    /\ CycleStep(l, TRUE, cap)
    /\ UNCHANGED <<hasPM, nodes, order, threshold_mw, priority_node, adjusting, since,
                   force_evaluate, needs_bootstrap, paused, gwVars, dis, chunkVars, supVars>>

\* poll_loop, lines 284-287: both _wait_for_responses windows end (all fresh,
\* threshold gone, or timed out), then the staleness scan, then the settle sleep
WaitRespDone(l) ==
    /\ loops[l].pc = "wait_resp"
    /\ nodes' = MarkStale(nodes)
    /\ loops' = [loops EXCEPT ![l].pc = "settle"]
    /\ out' = <<>>
    /\ last' = "step"
    /\ UNCHANGED <<hasPM, order, threshold_mw, priority_node, adjusting, since,
                   force_evaluate, poll_generation, polling, needs_bootstrap,
                   paused, gwVars, dis, chunkVars, supVars>>

\* poll_loop line 288: _evaluate_and_adjust up to its first suspension
Evaluate(l) ==
    LET kind == EvalKind
        R == Responsive(nodes)
        nd1 == IF force_evaluate THEN Resync(nodes, R) ELSE nodes
    IN /\ loops[l].pc = "settle"
       /\ last' = "step"
       /\ force_evaluate' = IF kind \in {"skip_guard", "skip_cooldown"}
                            THEN force_evaluate ELSE FALSE
       /\ IF kind = "run"
          THEN /\ nodes' = nd1
               /\ RunBalancer(l, nd1, Dispatch(loops[l], nd1, R, Budget),
                              node_events, evt)
          ELSE /\ loops' = [loops EXCEPT ![l].pc = "interval"]
               /\ out' = <<>>
               /\ UNCHANGED <<nodes, adjusting, since, node_events, evt>>
       /\ UNCHANGED <<hasPM, order, threshold_mw, priority_node, poll_generation,
                      polling, needs_bootstrap, paused, client, reconnecting,
                      was_connected, known_nodes, sensing_node_count, dis, chunkVars, supVars>>

\* _nudge_node line 493: the DUTY write has completed; _wait_node_response
\* creates its Event and stores it in _node_events (lines 359-360)
NudgeWritten(l) ==
    /\ loops[l].pc = "writing"
    /\ node_events' = [node_events EXCEPT ![loops[l].cur] = l]
    /\ evt' = [evt EXCEPT ![l] = FALSE]
    /\ loops' = [loops EXCEPT ![l].pc = "nudge_wait"]
    /\ out' = <<>>
    /\ last' = "step"
    /\ UNCHANGED <<pmVars, client, reconnecting, was_connected, known_nodes, sensing_node_count,
                   dis, chunkVars, supVars>>

\* A nudge that never records its duty.
ConfirmNever(nd, nid, newd, confirmed) == nd

\* A nudge that records its duty whether or not the node answered.
ConfirmAlways(nd, nid, newd, confirmed) ==
    [nd EXCEPT ![nid].commanded_duty = newd]

\* _nudge_node, lines 494-501
Confirm(nd, nid, newd, confirmed) ==
    IF confirmed THEN [nd EXCEPT ![nid].commanded_duty = newd] ELSE nd

\* _wait_node_response returns (Event set, or timed out) and pops the latch;
\* the nudge records the confirmation and the balancer runs on
NudgeWaitDone(l) ==
    LET nid == loops[l].cur
        nd1 == Confirm(nodes, nid, loops[l].newd, evt[l])
    IN /\ loops[l].pc = "nudge_wait"
       /\ last' = "step"
       /\ nodes' = nd1
       /\ RunBalancer(l, nd1, loops[l],
                      [node_events EXCEPT ![nid] = NoWaiter],
                      [evt EXCEPT ![l] = FALSE])
       /\ UNCHANGED <<hasPM, order, threshold_mw, priority_node, force_evaluate,
                      poll_generation, polling, needs_bootstrap, paused, client,
                      reconnecting, was_connected, known_nodes, sensing_node_count, dis, chunkVars, supVars>>

\* poll_loop line 289: the POLL_INTERVAL sleep ends
Interval(l, cap) ==
    /\ loops[l].pc = "interval"
    /\ last' = "step"
    /\ CycleStep(l, FALSE, cap)
    /\ UNCHANGED <<hasPM, nodes, order, threshold_mw, priority_node, adjusting, since,
                   force_evaluate, needs_bootstrap, paused, gwVars, dis, chunkVars, supVars>>

\* A cancellation whose CancelledError skips the cleanup handlers: the flags
\* and the response latch stay as they were.
CancelLoopNoCleanup(l) ==
    /\ loops[l].pc \notin {"idle"}
    /\ loops' = [loops EXCEPT ![l] = IdleLoop]
    /\ evt' = [evt EXCEPT ![l] = FALSE]
    /\ out' = <<>>
    /\ last' = "cancel"
    /\ UNCHANGED <<hasPM, nodes, order, threshold_mw, priority_node, since,
                   force_evaluate, poll_generation, needs_bootstrap, paused,
                   polling, adjusting, node_events,
                   client, reconnecting, was_connected, known_nodes, sensing_node_count, dis, chunkVars, supVars>>

\* The coroutine is cancelled at a suspension point (TUI worker group):
\* poll_loop lines 291-292, _evaluate_and_adjust lines 438-439,
\* _wait_node_response lines 366-367
CancelLoop(l) ==
    LET pc == loops[l].pc
        inRun == pc \in {"writing", "nudge_wait"}
    IN /\ pc \notin {"idle"}
       /\ loops' = [loops EXCEPT ![l] = IdleLoop]
       /\ polling' = IF pc \in {"start", "guard"} THEN polling ELSE FALSE
       /\ adjusting' = IF inRun THEN FALSE ELSE adjusting
       /\ node_events' = IF pc \in {"nudge_wait", "seed_wait", "probe_wait"}
                         THEN [node_events EXCEPT ![loops[l].cur] = NoWaiter]
                         ELSE node_events
       /\ evt' = [evt EXCEPT ![l] = FALSE]
       /\ out' = <<>>
       /\ last' = "cancel"
       /\ UNCHANGED <<hasPM, nodes, order, threshold_mw, priority_node, since,
                      force_evaluate, poll_generation, needs_bootstrap, paused,
                      client, reconnecting, was_connected, known_nodes, sensing_node_count, dis, chunkVars, supVars>>

(***************************************************************************)
(* Power manager: the disable() coroutine.                                 *)
(***************************************************************************)
\* disable, line 91
NeedsRestore(ns) == ns.commanded_duty # ns.target_duty /\ ns.target_duty > 0

\* disable, lines 90-97 run synchronously from position i of the node map:
\* nodes that need no restore only get commanded_duty = 0.  The result is the
\* node map and the position of the first node that needs a restore.
RECURSIVE DisScan(_, _, _)
DisScan(nd, ord, i) ==
    IF i > Len(ord) THEN <<nd, i>>
    ELSE IF NeedsRestore(nd[ord[i]]) THEN <<nd, i>>
    ELSE DisScan([nd EXCEPT ![ord[i]].commanded_duty = 0], ord, i + 1)

DisContinue(d, nd, i, ne, ev) ==
    LET r == DisScan(nd, order, i)
        j == r[2]
    IN /\ nodes' = r[1]
       /\ last' = IF j > Len(order) THEN "disable_returned" ELSE "step"
       /\ IF j > Len(order)
          THEN /\ dis' = IdleDis
               /\ out' = <<>>
               /\ node_events' = ne
               /\ evt' = ev
          ELSE LET nid == order[j]
                   wr == SendToNode(nid, "DUTY", ClampPct(nd[nid].target_duty))
               IN /\ out' = wr
                  /\ IF wr = <<>>
                     THEN /\ node_events' = [ne EXCEPT ![nid] = DisWaiter]
                          /\ evt' = [ev EXCEPT ![DisWaiter] = FALSE]
                          /\ dis' = [d EXCEPT !.pc = "restore_wait", !.idx = j]
                     ELSE /\ node_events' = ne
                          /\ evt' = ev
                          /\ dis' = [d EXCEPT !.pc = "restore_writing", !.idx = j]

\* disable, lines 85-88
DisableStart ==
    /\ hasPM
    /\ dis.pc = "idle"
    /\ threshold_mw' = None
    /\ polling' = FALSE
    /\ dis' = [pc |-> "drain", idx |-> 0, n0 |-> 0]
    /\ out' = <<>>
    /\ last' = "step"
    /\ UNCHANGED <<hasPM, nodes, order, priority_node, adjusting, since,
                   force_evaluate, poll_generation, needs_bootstrap, paused,
                   gwVars, loops, chunkVars, supVars>>

\* disable, line 88 onwards: the drain sleep ends and the restore loop starts
\* (the dict iterator is created here and remembers the size of the map)
DisableDrained ==
    /\ dis.pc = "drain"
    /\ DisContinue([dis EXCEPT !.n0 = Len(order)], nodes, 1, node_events, evt)
    /\ UNCHANGED <<hasPM, order, threshold_mw, priority_node, adjusting, since,
                   force_evaluate, poll_generation, polling, needs_bootstrap,
                   paused, client, reconnecting, was_connected, known_nodes, sensing_node_count,
                   loops, chunkVars, supVars>>

\* disable, line 96: the restore write has completed, the latch is registered
DisableWritten ==
    /\ dis.pc = "restore_writing"
    /\ node_events' = [node_events EXCEPT ![order[dis.idx]] = DisWaiter]
    /\ evt' = [evt EXCEPT ![DisWaiter] = FALSE]
    /\ dis' = [dis EXCEPT !.pc = "restore_wait"]
    /\ out' = <<>>
    /\ last' = "step"
    /\ UNCHANGED <<pmVars, client, reconnecting, was_connected, known_nodes, sensing_node_count,
                   loops, chunkVars, supVars>>

\* disable, lines 96-97: the restore wait returns; commanded_duty is reset and
\* the loop goes on.  A node map that grew during the waits makes the dict
\* iterator raise RuntimeError, which ends disable() there.
DisableWaitDone ==
    LET nid == order[dis.idx]
        nd1 == [nodes EXCEPT ![nid].commanded_duty = 0]
        ne1 == [node_events EXCEPT ![nid] = NoWaiter]
        ev1 == [evt EXCEPT ![DisWaiter] = FALSE]
    IN /\ dis.pc = "restore_wait"
       /\ IF Len(order) # dis.n0
          THEN /\ nodes' = nd1
               /\ last' = "disable_raised"
               /\ dis' = IdleDis
               /\ out' = <<>>
               /\ node_events' = ne1
               /\ evt' = ev1
          ELSE DisContinue(dis, nd1, dis.idx + 1, ne1, ev1)
       /\ UNCHANGED <<hasPM, order, threshold_mw, priority_node, adjusting, since,
                      force_evaluate, poll_generation, polling, needs_bootstrap,
                      paused, client, reconnecting, was_connected, known_nodes, sensing_node_count,
                      loops, chunkVars, supVars>>

(***************************************************************************)
(* Link and the auto-reconnect supervisor.                                 *)
(***************************************************************************)
\* The transport drops: client.is_connected turns false; the notifications
\* still in flight are lost with it.
LinkLoss ==
    /\ client = "up"
    /\ client' = "down"
    /\ chunks' = <<>>
    /\ out' = <<>>
    /\ last' = "step"
    /\ UNCHANGED <<pmVars, reconnecting, was_connected, known_nodes, sensing_node_count, node_events,
                   evt, procVars, chunk_buf, emitted, orig, supVars>>

\* _auto_reconnect_loop, lines 452-480
SupervisorDetect ==
    /\ sup.pc = "sleep"
    /\ client # "up"
    /\ was_connected
    /\ was_connected' = FALSE
    /\ reconnecting' = TRUE
    /\ paused' = IF hasPM /\ threshold_mw # None THEN TRUE ELSE paused
    /\ client' = "none"
    /\ connected_device' = NoAddr
    /\ out' = <<>>
    /\ last' = "step"
    /\ UNCHANGED <<hasPM, nodes, order, threshold_mw, priority_node, adjusting, since,
                   force_evaluate, poll_generation, polling, needs_bootstrap,
                   known_nodes, sensing_node_count, node_events, evt, procVars, chunkVars,
                   last_connected_address, sup, up>>

\* _auto_reconnect_loop, lines 486-495 with connect_to_node, lines 254-266,
\* in a mesh with one gateway device: the rescan finds the device that was
\* lost and client.connect() succeeds; the coroutine now waits for
\* start_notify with _reconnecting still set
ReconnectConnect ==
    /\ reconnecting
    /\ client # "up"
    /\ client' = "up"
    /\ connected_device' = last_connected_address
    /\ out' = <<>>
    /\ last' = "step"
    /\ UNCHANGED <<pmVars, reconnecting, was_connected, known_nodes, sensing_node_count, node_events,
                   evt, procVars, chunkVars, last_connected_address, sup, up>>

\* connect_to_node, lines 268-305, then _auto_reconnect_loop, lines 496-509
\* (or 519-531): the subscription is in place, the flags are restored
ReconnectSubscribed ==
    /\ reconnecting
    /\ client = "up"
    /\ was_connected' = TRUE
    /\ reconnecting' = FALSE
    /\ paused' = FALSE
    /\ out' = <<>>
    /\ last' = "step"
    /\ UNCHANGED <<hasPM, nodes, order, threshold_mw, priority_node, adjusting, since,
                   force_evaluate, poll_generation, polling, needs_bootstrap,
                   client, known_nodes, sensing_node_count, node_events, evt, procVars, chunkVars, supVars>>

(***************************************************************************)
(* The reconnect attempt device by device, in a mesh with several gateway  *)
(* devices (failover).                                                     *)
(***************************************************************************)
\* BleakScanner.discover returns the advertising devices in no fixed order:
\* every ordering of the set u.
RECURSIVE Scans(_)
Scans(u) ==
    IF u = {} THEN {<<>>}
    ELSE UNION {{<<a>> \o t : t \in Scans(u \ {a})} : a \in u}

\* _auto_reconnect_loop, lines 493-495 and 512-514: the pass and position of
\* the next device the loops will try from position i of pass ps, or pass 0
\* when both loops are exhausted.  Pass 1 skips the dead address, pass 2
\* (entered only with a dead address) takes only it.
\* Loops that try every scanned device in scan order, the dead one included.
NextTryNoSkip(devs, dd, ps, i) ==
    IF ps = 1 /\ i <= Len(devs) THEN <<1, i>> ELSE <<0, 0>>

RECURSIVE NextTry(_, _, _, _)
NextTry(devs, dd, ps, i) ==
    IF ps = 1
    THEN IF i > Len(devs)
         THEN IF dd # NoAddr THEN NextTry(devs, dd, 2, 1) ELSE <<0, 0>>
         ELSE IF devs[i] = dd THEN NextTry(devs, dd, 1, i + 1)
         ELSE <<1, i>>
    ELSE IF i > Len(devs) THEN <<0, 0>>
         ELSE IF devs[i] = dd THEN <<2, i>>
         ELSE NextTry(devs, dd, 2, i + 1)

\* The loops move on from position i of pass ps: connect_to_node is called on
\* the next device (client = BleakClient(...), not yet connected), or the
\* attempt ends and the supervisor sleeps until its next period.
SupAdvance(ps, i) ==
    LET nt == NextTry(sup.devices, sup.dead, ps, i) IN
    IF nt[1] = 0
    THEN sup' = [sup EXCEPT !.pc = "sleep"]
    ELSE sup' = [sup EXCEPT !.pc = "connect", !.pass = nt[1], !.idx = nt[2],
                            !.attempts = Append(@, sup.devices[nt[2]])]

\* The device connect_to_node is working on.
SupDevice == sup.devices[sup.idx]

\* The environment: gateway devices start or stop advertising; the link
\* drops when the connected device goes away.
EnvChange(u) ==
    /\ u # up
    /\ up' = u
    /\ client' = IF client = "up" /\ connected_device \notin u THEN "down" ELSE client
    /\ out' = <<>>
    /\ last' = "step"
    /\ UNCHANGED <<pmVars, reconnecting, was_connected, known_nodes, sensing_node_count, node_events,
                   evt, procVars, chunkVars, last_connected_address,
                   connected_device, sup>>

\* _auto_reconnect_loop, lines 449-488: the period sleep ends with the
\* supervisor reconnecting; it notes the dead address and starts a rescan
SupRescan ==
    /\ sup.pc = "sleep"
    /\ reconnecting
    /\ client # "up"
    /\ sup' = [IdleSup EXCEPT !.pc = "scan", !.dead = last_connected_address]
    /\ out' = <<>>
    /\ last' = "step"
    /\ UNCHANGED <<pmVars, gwVars, procVars, chunkVars, last_connected_address,
                   connected_device, up>>

\* _auto_reconnect_loop, lines 488-496 and 536-538: the scan returns ds; with
\* devices the first connect_to_node starts, with none the supervisor sleeps
SupScanDone(ds) ==
    /\ sup.pc = "scan"
    /\ LET nt == NextTry(ds, sup.dead, 1, 1) IN
       IF ds = <<>> \/ nt[1] = 0
       THEN sup' = [sup EXCEPT !.pc = "sleep", !.devices = ds]
       ELSE sup' = [sup EXCEPT !.pc = "connect", !.devices = ds,
                               !.pass = nt[1], !.idx = nt[2],
                               !.attempts = <<ds[nt[2]]>>]
    /\ out' = <<>>
    /\ last' = "step"
    /\ UNCHANGED <<pmVars, gwVars, procVars, chunkVars, last_connected_address,
                   connected_device, up>>

\* A supervisor whose loop ends on a scan error.
SupScanRaisesStops ==
    /\ sup.pc = "scan"
    /\ sup' = [sup EXCEPT !.pc = "stopped"]
    /\ out' = <<>>
    /\ last' = "step"
    /\ UNCHANGED <<pmVars, gwVars, procVars, chunkVars, last_connected_address,
                   connected_device, up>>

\* _auto_reconnect_loop, lines 539-541: the scan raises; the error is logged
\* and the supervisor sleeps until its next period
SupScanRaises ==
    /\ sup.pc = "scan"
    /\ sup' = [sup EXCEPT !.pc = "sleep"]
    /\ out' = <<>>
    /\ last' = "step"
    /\ UNCHANGED <<pmVars, gwVars, procVars, chunkVars, last_connected_address,
                   connected_device, up>>

\* connect_to_node, lines 254-266: client.connect() returns.  It fails on a
\* device that has gone (client = None, the loops move on); otherwise the
\* client is connected and start_notify is awaited.
SupConnectDone ==
    /\ sup.pc = "connect"
    /\ IF SupDevice \in up
       THEN /\ client' = "up"
            /\ connected_device' = SupDevice
            /\ sup' = [sup EXCEPT !.pc = "subscribe"]
       ELSE /\ client' = "none"
            /\ connected_device' = connected_device
            /\ SupAdvance(sup.pass, sup.idx + 1)
    /\ out' = <<>>
    /\ last' = "step"
    /\ UNCHANGED <<pmVars, reconnecting, was_connected, known_nodes, sensing_node_count, node_events,
                   evt, procVars, chunkVars, last_connected_address, up>>

\* connect_to_node, lines 268-305, then _auto_reconnect_loop, lines 496-509
\* or 516-531: start_notify returns.  Subscribed, the flags are restored, the
\* address is recorded and the loops stop; on an error the client is dropped
\* and the loops move on.
SupSubscribeDone ==
    /\ sup.pc = "subscribe"
    /\ IF client = "up" /\ SupDevice \in up
       THEN /\ was_connected' = TRUE
            /\ last_connected_address' = SupDevice
            /\ reconnecting' = FALSE
            /\ paused' = FALSE
            /\ sup' = [sup EXCEPT !.pc = "sleep"]
            /\ UNCHANGED <<client, connected_device>>
       ELSE /\ client' = "none"
            /\ connected_device' = NoAddr
            /\ SupAdvance(sup.pass, sup.idx + 1)
            /\ UNCHANGED <<was_connected, last_connected_address, reconnecting,
                           paused>>
    /\ out' = <<>>
    /\ last' = "step"
    /\ UNCHANGED <<hasPM, nodes, order, threshold_mw, priority_node, adjusting, since,
                   force_evaluate, poll_generation, polling, needs_bootstrap,
                   known_nodes, sensing_node_count, node_events, evt, procVars, chunkVars, up>>

(***************************************************************************)
(* Notification handler: chunk reassembly.  A frame is a sequence of       *)
(* one-character strings.                                                  *)
(***************************************************************************)
MaxMsgLen == 3
Alphabet == {"a", "b", " "}
Whitespace == {" "}

RECURSIVE StripLeft(_)
StripLeft(s) ==
    IF s # <<>> /\ Head(s) \in Whitespace THEN StripLeft(Tail(s)) ELSE s

RECURSIVE StripRight(_)
StripRight(s) ==
    IF s # <<>> /\ s[Len(s)] \in Whitespace
    THEN StripRight(SubSeq(s, 1, Len(s) - 1))
    ELSE s

\* str.strip()
Strip(s) == StripRight(StripLeft(s))

\* notification_handler line 140: data.decode('utf-8', errors='replace').strip()
Decode(frame) == Strip(frame)

\* notification_handler, lines 140-150 and the text branches 224-248: a
\* continuation chunk is buffered; a final chunk is joined with the buffer,
\* the buffer is cleared and the message is processed (logged).
NotifyFrame ==
    /\ client = "up"
    /\ ~reconnecting
    /\ chunks # <<>>
    /\ LET decoded == Decode(Head(chunks)) IN
       IF decoded # <<>> /\ Head(decoded) = "+"
       THEN /\ chunk_buf' = chunk_buf \o Tail(decoded)
            /\ emitted' = emitted
       ELSE /\ chunk_buf' = <<>>
            /\ emitted' = Append(emitted, chunk_buf \o decoded)
    /\ chunks' = Tail(chunks)
    /\ out' = <<>>
    /\ last' = "step"
    /\ UNCHANGED <<pmVars, gwVars, procVars, orig, supVars>>

\* The peer's chunker: every way of cutting a message into non-empty pieces,
\* each piece but the last sent with a leading '+'.
RECURSIVE Pieces(_)
Pieces(m) ==
    {<<m>>} \cup
    UNION {{<<SubSeq(m, 1, k)>> \o p : p \in Pieces(SubSeq(m, k + 1, Len(m)))} :
              k \in 1..(Len(m) - 1)}

Wire(p) == [i \in 1..Len(p) |-> IF i < Len(p) THEN <<"+">> \o p[i] ELSE p[i]]

\* Messages without leading or trailing whitespace, as the mesh sends them.
Messages ==
    {m \in UNION {[1..n -> Alphabet] : n \in 1..MaxMsgLen} :
        m[1] \notin Whitespace /\ m[Len(m)] \notin Whitespace}

InitChunk ==
    /\ InitCommon
    /\ sensing_node_count = 0
    /\ orig \in Messages
    /\ chunks \in {Wire(p) : p \in Pieces(orig)}

NextChunk == NotifyFrame

SpecChunk == InitChunk /\ [][NextChunk]_vars

\* DCMonitorGateway.disconnect, lines 308-317: the client is disconnected and
\* the reassembly buffer cleared
Disconnect ==
    /\ client' = IF client = "up" THEN "down" ELSE client
    /\ chunk_buf' = <<>>
    /\ chunks' = <<>>
    /\ out' = <<>>
    /\ last' = "disconnect"
    /\ UNCHANGED <<pmVars, reconnecting, was_connected, known_nodes, sensing_node_count, node_events,
                   evt, procVars, emitted, orig, supVars>>

\* Messages without any whitespace (strip leaves their chunks as they are).
PlainMessages == {m \in Messages : \A i \in 1..Len(m) : m[i] \notin Whitespace}

\* The peer starts sending message m over the subscribed connection, chunked
\* as w; emitted then holds what the handler has emitted since.  Leftover
\* buffer content is capped at MaxMsgLen to keep the state space finite.
PeerSend(m, w) ==
    /\ client = "up"
    /\ ~reconnecting
    /\ chunks = <<>>
    /\ Len(chunk_buf) < MaxMsgLen
    /\ orig' = m
    /\ chunks' = w
    /\ emitted' = <<>>
    /\ out' = <<>>
    /\ last' = "step"
    /\ UNCHANGED <<pmVars, gwVars, procVars, chunk_buf, supVars>>

(***************************************************************************)
(* Reassembly across connections: the peer sends chunked messages, the     *)
(* link drops in the middle of one and the supervisor reconnects.          *)
(***************************************************************************)
NextReasm ==
    \/ \E m \in PlainMessages : \E p \in Pieces(m) : PeerSend(m, Wire(p))
    \/ NotifyFrame
    \/ LinkLoss
    \/ Disconnect
    \/ SupervisorDetect
    \/ ReconnectConnect
    \/ ReconnectSubscribed

SpecReasm == Init /\ [][NextReasm]_vars

(***************************************************************************)
(* The gateway with its power manager: one sensing node, every operation.  *)
(***************************************************************************)
Next ==
    \/ \E n \in {1, ALL}, p \in PctVals : SetDuty(n, p)
    \/ \E mw \in ThresholdVals : SetThreshold(mw)
    \/ SetPriority(1)
    \/ ClearPriority
    \/ \E r \in Readings : SensorReading(1, r[1], r[2])
    \/ \E d \in TickSteps : Tick(d)
    \/ \E l \in Loops : PollLoopStart(l, MaxGen)
    \/ \E l \in Loops : PostBoot(l, MaxGen)
    \/ \E l \in Loops : WaitRespDone(l)
    \/ \E l \in Loops : Evaluate(l)
    \/ \E l \in Loops : NudgeWritten(l)
    \/ \E l \in Loops : NudgeWaitDone(l)
    \/ \E l \in Loops : Interval(l, MaxGen)
    \/ DisableStart
    \/ DisableDrained
    \/ DisableWritten
    \/ DisableWaitDone
    \/ LinkLoss
    \/ SupervisorDetect
    \/ ReconnectConnect
    \/ ReconnectSubscribed

Spec == Init /\ [][Next]_vars

(***************************************************************************)
(* Balancing runs: the sensing nodes under a connected link, the operator  *)
(* setting duties and the threshold.                                       *)
(***************************************************************************)
NextBal ==
    \/ \E n \in {2, ALL}, p \in PctValsBal : SetDuty(n, p)
    \/ \E mw \in ThresholdValsBal : SetThreshold(mw)
    \/ \E n \in DOMAIN ReadingsBal : \E r \in ReadingsBal[n] : SensorReading(n, r[1], r[2])
    \/ \E l \in Loops : PollLoopStart(l, MaxGenBal)
    \/ \E l \in Loops : PostBoot(l, MaxGenBal)
    \/ \E l \in Loops : WaitRespDone(l)
    \/ \E l \in Loops : Evaluate(l)
    \/ \E l \in Loops : NudgeWritten(l)
    \/ \E l \in Loops : NudgeWaitDone(l)
    \/ \E l \in Loops : Interval(l, MaxGenBal)

SpecBal == Init /\ [][NextBal]_vars

(***************************************************************************)
(* Commands under a link that drops and is re-established: the operator's  *)
(* commands, and the power manager's own READ and DUTY commands.           *)
(***************************************************************************)
NextCmd ==
    \/ \E n \in {1, ALL}, p \in PctVals : SetDuty(n, p)
    \/ \E v \in Verbs : OperatorCommand(1, v)
    \/ RawCommand(ALL, "READ")
    \/ \E mw \in ThresholdVals : SetThreshold(mw)
    \/ \E r \in Readings : SensorReading(1, r[1], r[2])
    \/ \E l \in Loops : PollLoopStart(l, MaxGen)
    \/ \E l \in Loops : PostBoot(l, MaxGen)
    \/ \E l \in Loops : WaitRespDone(l)
    \/ \E l \in Loops : Evaluate(l)
    \/ \E l \in Loops : NudgeWritten(l)
    \/ \E l \in Loops : NudgeWaitDone(l)
    \/ \E l \in Loops : Interval(l, MaxGen)
    \/ DisableStart
    \/ DisableDrained
    \/ DisableWritten
    \/ DisableWaitDone
    \/ LinkLoss
    \/ SupervisorDetect
    \/ ReconnectConnect
    \/ ReconnectSubscribed

SpecCmd == Init /\ [][NextCmd]_vars

(***************************************************************************)
(* Evaluation: one poll loop over two nodes whose readings put the total   *)
(* inside and outside the dead band, with node 1 in and out of sync with a *)
(* ceiling the operator sets.                                              *)
(***************************************************************************)
ReadingsEval ==
    [n \in {1, 2} |-> IF n = 1 THEN {<<80, 2400>>, <<80, 2000>>, <<50, 1000>>}
                      ELSE {<<10, 250>>}]
PctValsEval == {80}

NextEval ==
    \/ \E p \in PctValsEval : SetDuty(1, p)
    \/ \E mw \in ThresholdVals : SetThreshold(mw)
    \/ \E n \in DOMAIN ReadingsEval : \E r \in ReadingsEval[n] : SensorReading(n, r[1], r[2])
    \/ \E l \in Loops : PollLoopStart(l, MaxGenBal)
    \/ \E l \in Loops : PostBoot(l, MaxGenBal)
    \/ \E l \in Loops : WaitRespDone(l)
    \/ \E l \in Loops : Evaluate(l)
    \/ \E l \in Loops : NudgeWritten(l)
    \/ \E l \in Loops : NudgeWaitDone(l)
    \/ \E l \in Loops : Interval(l, MaxGenBal)

SpecEval == Init /\ [][NextEval]_vars

(***************************************************************************)
(* Priority balancing: one poll loop over the nodes of ReadingsPri while   *)
(* the operator sets and clears the priority node.                         *)
(***************************************************************************)
ReadingsPri ==
    [n \in {1, 2} |-> IF n = 1 THEN {<<80, 2000>>} ELSE {<<10, 250>>, <<0, 0>>}]

NextPri ==
    \/ \E mw \in ThresholdVals : SetThreshold(mw)
    \/ \E n \in DOMAIN ReadingsPri : SetPriority(n)
    \/ ClearPriority
    \/ \E n \in DOMAIN ReadingsPri : \E r \in ReadingsPri[n] : SensorReading(n, r[1], r[2])
    \/ \E d \in TickSteps : Tick(d)
    \/ \E l \in Loops : PollLoopStart(l, MaxGenBal)
    \/ \E l \in Loops : PostBoot(l, MaxGenBal)
    \/ \E l \in Loops : WaitRespDone(l)
    \/ \E l \in Loops : Evaluate(l)
    \/ \E l \in Loops : NudgeWritten(l)
    \/ \E l \in Loops : NudgeWaitDone(l)
    \/ \E l \in Loops : Interval(l, MaxGenBal)

SpecPri == Init /\ [][NextPri]_vars

(***************************************************************************)
(* Nudging: one poll loop over two nodes that share a budget of 2500 mW;   *)
(* node 1 draws 1200 mW at 40 % and node 2 draws 1250 mW at 40 %.          *)
(***************************************************************************)
ReadingsNudge ==
    [n \in {1, 2} |-> IF n = 1 THEN {<<40, 1200>>, <<90, 1200>>} ELSE {<<40, 1250>>}]

NextNudge ==
    \/ \E mw \in ThresholdVals : SetThreshold(mw)
    \/ \E n \in DOMAIN ReadingsNudge : \E r \in ReadingsNudge[n] : SensorReading(n, r[1], r[2])
    \/ \E l \in Loops : PollLoopStart(l, MaxGenBal)
    \/ \E l \in Loops : PostBoot(l, MaxGenBal)
    \/ \E l \in Loops : WaitRespDone(l)
    \/ \E l \in Loops : Evaluate(l)
    \/ \E l \in Loops : NudgeWritten(l)
    \/ \E l \in Loops : NudgeWaitDone(l)
    \/ \E l \in Loops : Interval(l, MaxGenBal)

SpecNudge == Init /\ [][NextNudge]_vars

(***************************************************************************)
(* Interactive mode: every threshold command starts a poll_loop task with  *)
(* asyncio.ensure_future and nothing cancels the earlier ones; "threshold  *)
(* off" awaits disable().                                                  *)
(***************************************************************************)
NextPoll ==
    \/ \E mw \in ThresholdVals : SetThresholdIn(mw, PollLoops)
    \/ \E r \in Readings : SensorReading(1, r[1], r[2])
    \/ \E l \in PollLoops : PollLoopStart(l, MaxGenBal)
    \/ \E l \in PollLoops : GuardCheck(l, MaxGenBal)
    \/ \E l \in PollLoops : PostBoot(l, MaxGenBal)
    \/ \E l \in PollLoops : WaitRespDone(l)
    \/ \E l \in PollLoops : Evaluate(l)
    \/ \E l \in PollLoops : NudgeWritten(l)
    \/ \E l \in PollLoops : NudgeWaitDone(l)
    \/ \E l \in PollLoops : Interval(l, MaxGenBal)
    \/ DisableStart
    \/ DisableDrained
    \/ DisableWritten
    \/ DisableWaitDone

SpecPoll == Init /\ [][NextPoll]_vars

(***************************************************************************)
(* Response waits: one poll loop nudging two nodes whose readings arrive   *)
(* at any moment; the loop's worker may be cancelled at any suspension.    *)
(***************************************************************************)
NextWait ==
    \/ \E mw \in ThresholdVals : SetThreshold(mw)
    \/ \E n \in DOMAIN ReadingsBal : \E r \in ReadingsBal[n] : SensorReading(n, r[1], r[2])
    \/ \E l \in Loops : PollLoopStart(l, MaxGenBal)
    \/ \E l \in Loops : PostBoot(l, MaxGenBal)
    \/ \E l \in Loops : WaitRespDone(l)
    \/ \E l \in Loops : Evaluate(l)
    \/ \E l \in Loops : NudgeWritten(l)
    \/ \E l \in Loops : NudgeWaitDone(l)
    \/ \E l \in Loops : Interval(l, MaxGenBal)
    \/ \E l \in Loops : CancelLoop(l)

SpecWait == Init /\ [][NextWait]_vars

(***************************************************************************)
(* Disabling: three nodes under a connected link; the threshold is set and *)
(* disabled again while readings keep arriving.                            *)
(***************************************************************************)
NextDis ==
    \/ \E mw \in ThresholdVals : SetThreshold(mw)
    \/ \E n \in NodeIds, r \in Readings : SensorReading(n, r[1], r[2])
    \/ \E l \in Loops : PollLoopStart(l, MaxGen)
    \/ \E l \in Loops : PostBoot(l, MaxGen)
    \/ \E l \in Loops : WaitRespDone(l)
    \/ \E l \in Loops : Evaluate(l)
    \/ \E l \in Loops : NudgeWritten(l)
    \/ \E l \in Loops : NudgeWaitDone(l)
    \/ \E l \in Loops : Interval(l, MaxGen)
    \/ DisableStart
    \/ DisableDrained
    \/ DisableWritten
    \/ DisableWaitDone

SpecDis == Init /\ [][NextDis]_vars

(***************************************************************************)
(* Discovery: the scan found BootCounts sensing nodes; readings of nodes 1 *)
(* and 2 arrive before and after the first threshold command constructs    *)
(* the power manager.                                                      *)
(***************************************************************************)
BootCounts == {1, 2}
BootNodes == {1, 2}

InitBoot ==
    /\ InitCommon
    /\ sensing_node_count \in BootCounts
    /\ chunks = <<>>
    /\ orig = <<>>

NextBoot ==
    \/ \E mw \in ThresholdVals : SetThreshold(mw)
    \/ \E n \in BootNodes, r \in Readings : SensorReading(n, r[1], r[2])
    \/ \E l \in Loops : PollLoopStart(l, MaxGen)
    \/ \E l \in Loops : BootWritten(l)
    \/ \E l \in Loops : BootWaitDone(l)
    \/ \E l \in Loops : PostBoot(l, MaxGen)
    \/ \E l \in Loops : WaitRespDone(l)
    \/ \E l \in Loops : Evaluate(l)
    \/ \E l \in Loops : NudgeWritten(l)
    \/ \E l \in Loops : NudgeWaitDone(l)
    \/ \E l \in Loops : Interval(l, MaxGen)
    \/ DisableStart
    \/ DisableDrained
    \/ DisableWritten
    \/ DisableWaitDone

SpecBoot == InitBoot /\ [][NextBoot]_vars

(***************************************************************************)
(* Termination: two nodes under a connected link.  The asyncio loop runs   *)
(* every task whose sleep has ended, and the drain sleep and the response  *)
(* waits of disable() carry a deadline, so a step of disable() that is     *)
(* enabled is eventually taken.                                            *)
(***************************************************************************)
LiveNodes == {1, 2}

DisStep ==
    \/ DisableDrained
    \/ DisableWritten
    \/ DisableWaitDone

NextLive ==
    \/ \E mw \in ThresholdVals : SetThreshold(mw)
    \/ \E n \in LiveNodes, r \in Readings : SensorReading(n, r[1], r[2])
    \/ \E l \in Loops : PollLoopStart(l, MaxGen)
    \/ \E l \in Loops : PostBoot(l, MaxGen)
    \/ \E l \in Loops : WaitRespDone(l)
    \/ \E l \in Loops : Evaluate(l)
    \/ \E l \in Loops : NudgeWritten(l)
    \/ \E l \in Loops : NudgeWaitDone(l)
    \/ \E l \in Loops : Interval(l, MaxGen)
    \/ DisableStart
    \/ DisableDrained
    \/ DisableWritten
    \/ DisableWaitDone

SpecLive ==
    /\ Init
    /\ [][NextLive]_vars
    /\ WF_vars(DisStep)

(***************************************************************************)
(* Re-enabling: node 1 draws 50 mW per % and reports the duty it was last  *)
(* commanded: 80 % as the operator left it (and again in answer to the     *)
(* restore of disable()), 50 % once the balancer's DUTY:50 has reached it. *)
(* The threshold is set, disabled and set again; no operator duty command. *)
(***************************************************************************)
ReportsFull ==
    /\ \/ 1 \notin DOMAIN nodes
       \/ 1 \in DOMAIN nodes /\ nodes[1].duty = 80
       \/ dis.pc = "restore_wait" /\ order[dis.idx] = 1
    /\ SensorReading(1, 80, 4000)

ReportsReduced ==
    /\ \/ \E l \in Loops : /\ loops[l].pc = "nudge_wait"
                            /\ loops[l].cur = 1
                            /\ loops[l].sent = "written"
                            /\ loops[l].newd = 50
       \/ 1 \in DOMAIN nodes /\ nodes[1].duty = 50 /\ threshold_mw # None
    /\ SensorReading(1, 50, 2500)

NextReen ==
    \/ \E mw \in ThresholdVals : SetThreshold(mw)
    \/ ReportsFull
    \/ ReportsReduced
    \/ \E l \in Loops : PollLoopStart(l, MaxGenBal)
    \/ \E l \in Loops : PostBoot(l, MaxGenBal)
    \/ \E l \in Loops : WaitRespDone(l)
    \/ \E l \in Loops : Evaluate(l)
    \/ \E l \in Loops : NudgeWritten(l)
    \/ \E l \in Loops : NudgeWaitDone(l)
    \/ \E l \in Loops : Interval(l, MaxGenBal)
    \/ DisableStart
    \/ DisableDrained
    \/ DisableWritten
    \/ DisableWaitDone

SpecReen == Init /\ [][NextReen]_vars

(***************************************************************************)
(* Failover: gateway devices come and go, the supervisor rescans and tries *)
(* them one by one.  The asyncio loop runs the supervisor task whenever    *)
(* its sleep, scan, connect or subscribe completes.                        *)
(***************************************************************************)
SupStep ==
    \/ SupervisorDetect
    \/ SupRescan
    \/ \E ds \in Scans(up) : SupScanDone(ds)
    \/ SupConnectDone
    \/ SupSubscribeDone

NextSup ==
    \/ \E u \in SUBSET Addrs : EnvChange(u)
    \/ \E mw \in ThresholdVals : SetThreshold(mw)
    \/ SupervisorDetect
    \/ SupRescan
    \/ \E ds \in Scans(up) : SupScanDone(ds)
    \/ SupScanRaises
    \/ SupConnectDone
    \/ SupSubscribeDone

SpecSup == Init /\ [][NextSup]_vars /\ WF_vars(SupStep)

(***************************************************************************)
(* Properties of the duty fields.                                          *)
(***************************************************************************)
TargetOf(nd, n) == IF n \in DOMAIN nd THEN nd[n].target_duty ELSE 0
CommandedOf(nd, n) == IF n \in DOMAIN nd THEN nd[n].commanded_duty ELSE 0

\* C1: while threshold_mw is set, every node of the power manager's node map
\* satisfies 0 <= commanded_duty <= target_duty <= 100.
C1_DutyOrdering ==
    threshold_mw # None =>
        \A n \in DOMAIN nodes :
            /\ 0 <= nodes[n].commanded_duty
            /\ nodes[n].commanded_duty <= nodes[n].target_duty
            /\ nodes[n].target_duty <= MAX_DUTY

\* The balancer has just written a DUTY frame for the node it is nudging.
NudgeIssued(l) ==
    /\ loops[l].pc = "writing"
    /\ out = <<Frame(loops[l].cur, "DUTY", loops[l].newd)>>

\* C2: every DUTY value the balancer writes for a node while the threshold is
\* set is within 0..100 and not above that node's target_duty at that moment.
C2_NudgeWithinCeiling ==
    \A l \in Loops :
        (threshold_mw # None /\ NudgeIssued(l)) =>
            /\ loops[l].newd \in 0..MAX_DUTY
            /\ loops[l].newd <= nodes[loops[l].cur].target_duty

\* C3: a step changes some node's target_duty only if it is an operator duty
\* command or the set_threshold call that enables the power manager.
C3_TargetFrame ==
    [][(\E n \in NodeIds : TargetOf(nodes', n) # TargetOf(nodes, n))
          => last' \in {"set_duty", "set_threshold_first"}]_vars

\* C3 witness: under an active power manager a node with an operator ceiling
\* has reported a different duty and a forced evaluation has resynchronised
\* its commanded_duty to it; the ceiling is still the operator's.
C3_Witness ==
    \E n \in DOMAIN nodes :
        /\ threshold_mw # None
        /\ nodes[n].target_duty > 0
        /\ nodes[n].duty # nodes[n].target_duty
        /\ nodes[n].commanded_duty = nodes[n].duty
        /\ ~force_evaluate

\* The step ends a nudge's response wait with the node's confirmation.
ConfirmedNudgeStep(n) ==
    \E l \in Loops :
        /\ loops[l].pc = "nudge_wait"
        /\ loops[l].cur = n
        /\ evt[l]
        /\ loops'[l] # loops[l]
        /\ CommandedOf(nodes', n) = loops[l].newd

\* The step is a forced evaluation that copies the reported duty.
ForcedResyncStep(n) ==
    \E l \in Loops :
        /\ loops[l].pc = "settle"
        /\ force_evaluate
        /\ loops'[l] # loops[l]
        /\ CommandedOf(nodes', n) = nodes[n].duty

\* The step is disable() passing over the node and zeroing its commanded_duty.
DisableResetStep(n) ==
    /\ dis.pc \in {"drain", "restore_wait"}
    /\ dis' # dis
    /\ CommandedOf(nodes', n) = 0

CommandedChanged(n) == CommandedOf(nodes', n) # CommandedOf(nodes, n)

C5_NoResnapshot ==
    [][last' = "set_threshold" =>
          \A n \in NodeIds : TargetOf(nodes', n) = TargetOf(nodes, n)]_vars

\* C5 witness: set_threshold has just been called on an active power manager
\* holding a node whose reported duty is positive and differs from its target.
C5_Witness ==
    /\ last = "set_threshold"
    /\ \E n \in DOMAIN nodes :
          nodes[n].duty > 0 /\ nodes[n].duty # nodes[n].target_duty

(***************************************************************************)
(* Properties of the balancer.                                             *)
(***************************************************************************)
\* The node map an evaluation balances (after the resync of a forced one) and
\* the shares it hands out.
EvalNodes == IF force_evaluate THEN Resync(nodes, Responsive(nodes)) ELSE nodes
EvalPlan == Dispatch(IdleLoop, EvalNodes, Responsive(nodes), Budget)

\* Total commanded power: duty in force times the node's mW per %.
RECURSIVE CommandedMw(_, _, _)
CommandedMw(nd, R, S) ==
    IF S = {} THEN <<0, 1>>
    ELSE LET x == CHOOSE y \in S : TRUE
         IN RAdd(RMul(RInt(Current(nd[x])), EstimateMwPerPct(nd, x, R)),
                 CommandedMw(nd, R, S \ {x}))

\* The same total once every nudge of the plan has been confirmed.
RECURSIVE PlannedMw(_, _, _)
PlannedMw(nd, lp, S) ==
    IF S = {} THEN <<0, 1>>
    ELSE LET x == CHOOSE y \in S : TRUE
         IN RAdd(RMul(RInt(NewDuty(nd, x, ShareOf(lp, x), lp.resp)),
                      EstimateMwPerPct(nd, x, lp.resp)),
                 PlannedMw(nd, lp, S \ {x}))

DistanceToBudget(mw) == RAbs(RSub(mw, RInt(Budget)))

\* C6: an evaluation that follows another with no operator call in between
\* (so none is forced) either issues no command or moves the total commanded
\* power strictly toward the budget.
C6_TowardBudget ==
    \A l \in Loops :
        (loops[l].pc = "settle" /\ ~force_evaluate /\ EvalKind = "run") =>
            \/ SkipNoops(EvalNodes, EvalPlan.queue, EvalPlan) = <<>>
            \/ RLt(DistanceToBudget(PlannedMw(EvalNodes, EvalPlan, Responsive(nodes))),
                   DistanceToBudget(CommandedMw(EvalNodes, Responsive(nodes),
                                                Responsive(nodes))))

\* Every responsive node reports the duty it was last commanded, with data.
TelemetryAgrees ==
    \A n \in Responsive(nodes) :
        /\ nodes[n].duty > 0
        /\ nodes[n].power > 0
        /\ nodes[n].commanded_duty = nodes[n].duty

\* An unforced evaluation of this state would command nothing.
Quiescent ==
    /\ threshold_mw # None
    /\ Budget > 0
    /\ ~force_evaluate
    /\ ~adjusting
    /\ Responsive(nodes) # {}
    /\ TelemetryAgrees
    /\ SkipNoops(nodes, EvalPlan.queue, EvalPlan) = <<>>

Converged ==
    LET R == Responsive(nodes)
        total == SumPower(nodes, R)
    IN \/ InDeadband(total, Budget)
       \/ AllAtCeiling(nodes, R) /\ total <= Budget

\* C7: with telemetry proportional to duty and every nudge confirmed, the
\* state in which the poll loop stops issuing DUTY commands has its total
\* power within the dead band of the budget, or every responsive node at its
\* target_duty ceiling with total power <= budget.
C7_RestsConverged ==
    \A l \in Loops :
        (loops[l].pc = "interval" /\ Quiescent) => Converged

(***************************************************************************)
(* Properties of the notification handler.                                 *)
(***************************************************************************)
\* C8: once every chunk of a message has been fed in order to the handler,
\* starting from an empty buffer, it has emitted exactly one logical message,
\* equal to the original, and the buffer is empty again.
C8_Reassembly ==
    chunks = <<>> => (emitted = <<orig>> /\ chunk_buf = <<>>)

(***************************************************************************)
(* Properties of the command path.                                         *)
(***************************************************************************)
\* C9: a step writes a frame to the transport only if, when it started, the
\* session was connected and the reconnecting flag was clear; every command
\* issued otherwise writes nothing.
C9_NoWriteUnlessConnected ==
    [][out' # <<>> => (client = "up" /\ ~reconnecting)]_vars

\* C9 witness: an operator duty command has just been refused, writing
\* nothing, on a session that is connected again but still reconnecting.
C9_Witness ==
    /\ last = "set_duty"
    /\ out = <<>>
    /\ client = "up"
    /\ reconnecting

\* The value set_duty sends for a requested percentage.
Clamped(p) == IF p < 0 THEN 0 ELSE IF p > 100 THEN 100 ELSE p

\* C10: set_duty(n, pct) writes <n>:DUTY:<c>, c being pct clamped to 0..100,
\* and under an active power manager sets target_duty and commanded_duty to c
\* on node n, or on every known node when n is ALL; a DUTY frame written by
\* the power manager itself comes with no change of any target_duty.
C10_SetDuty ==
    [][/\ \A n \in NodeIds \cup {ALL}, p \in PctValsBal :
             SetDuty(n, p) =>
                /\ out' = <<Frame(n, "DUTY", Clamped(p))>>
                /\ threshold_mw # None =>
                      \A m \in (IF n = ALL THEN known_nodes ELSE {n}) :
                          /\ m \in DOMAIN nodes'
                          /\ nodes'[m].target_duty = Clamped(p)
                          /\ nodes'[m].commanded_duty = Clamped(p)
       /\ (out' # <<>> /\ last' # "set_duty") =>
             \A m \in NodeIds : TargetOf(nodes', m) = TargetOf(nodes, m)]_vars

(***************************************************************************)
(* Properties of the response latch.                                       *)
(***************************************************************************)
\* A reading from node nid is processed by this step.
ReadingFrom(nid) == \E n \in DOMAIN ReadingsBal : \E r \in ReadingsBal[n] :
                       n = nid /\ SensorReading(n, r[1], r[2])

\* Loop l is the only coroutine waiting, or about to wait, on its node.
SingleWaiter(l) ==
    \A l2 \in Loops \ {l} :
        ~(loops[l2].pc \in {"writing", "nudge_wait"} /\ loops[l2].cur = loops[l].cur)

\* C11: with a single waiter, the latch of a wait on node nid is signalled by
\* exactly the readings from nid processed while it is registered (one
\* processed before registration is lost), the wait returns whether the latch
\* was signalled, and when it exits (signal, timeout or cancellation) no
\* latch for nid is left in node_events.
C11_WaitLatch ==
    [][\A l \in Loops :
         LET nid == loops[l].cur
             waiting == loops[l].pc = "nudge_wait" /\ SingleWaiter(l)
             registered == waiting /\ node_events[nid] = l
         IN /\ (loops[l].pc = "writing" /\ loops'[l].pc = "nudge_wait") =>
                  (~evt'[l] /\ node_events'[nid] = l)
            /\ (registered /\ loops'[l].pc = "nudge_wait") => node_events'[nid] = l
            /\ (registered /\ ReadingFrom(nid)) => evt'[l]
            /\ (waiting /\ ~evt[l] /\ evt'[l]) => ReadingFrom(nid)
            /\ (waiting /\ evt[l] /\ ~evt'[l]) => (NudgeWaitDone(l) \/ CancelLoop(l))
            /\ (waiting /\ NudgeWaitDone(l)) =>
                  /\ node_events'[nid] = NoWaiter
                  /\ nodes'[nid].commanded_duty =
                        IF evt[l] THEN loops[l].newd ELSE nodes[nid].commanded_duty
            /\ (waiting /\ CancelLoop(l)) => node_events'[nid] = NoWaiter]_vars

\* C11 witness: a reading arrived while the nudge's latch was registered, and
\* the latch is signalled with the wait still pending.
C11_Witness ==
    \E l \in Loops : /\ loops[l].pc = "nudge_wait"
                      /\ node_events[loops[l].cur] = l
                      /\ evt[l]

(***************************************************************************)
(* Properties of the reconnect supervisor.                                 *)
(***************************************************************************)
\* The order the claim prescribes for a scan result: every device but the
\* previously connected one in scan order, then the previously connected one.
OthersOf(devs, dd) ==
    LET keep(a) == a # dd IN SelectSeq(devs, keep)
DeadOf(devs, dd) ==
    LET keep(a) == a = dd IN SelectSeq(devs, keep)
FailoverOrder(devs, dd) == OthersOf(devs, dd) \o DeadOf(devs, dd)

IsPrefix(a, b) == Len(a) <= Len(b) /\ SubSeq(b, 1, Len(a)) = a

\* C12: the connects attempted since a rescan are a prefix of the failover
\* order of its result (the others in scan order, the previous address
\* last); an attempt that ends with the supervisor still reconnecting has
\* tried them all; and the step that ends it by a success clears
\* reconnecting, sets was_connected and records the address of the device
\* that connected, which is the last one tried.
C12_FailoverOrder ==
    [][/\ IsPrefix(sup'.attempts, FailoverOrder(sup'.devices, sup'.dead))
       /\ (sup.pc \in {"connect", "subscribe"} /\ sup'.pc = "sleep" /\ reconnecting')
             => sup'.attempts = FailoverOrder(sup'.devices, sup'.dead)
       /\ (reconnecting /\ ~reconnecting')
             => /\ was_connected'
                /\ client' = "up"
                /\ sup'.pc = "sleep"
                /\ sup'.attempts = sup.attempts
                /\ last_connected_address' = sup.attempts[Len(sup.attempts)]
                /\ connected_device' = last_connected_address']_vars

\* C12 witness: the previously connected device was scanned first, the other
\* two were tried before it, and the supervisor is now connecting to it.
C12_Witness ==
    /\ sup.pc = "connect"
    /\ Len(sup.devices) = 3
    /\ sup.devices[1] = sup.dead
    /\ Len(sup.attempts) = 3
    /\ sup.attempts[3] = sup.dead

\* C18: while reconnecting, a supervisor back at its period sleep (after an
\* empty scan, failed connects or a scan error) always goes on to a new
\* rescan; and if from some point on a gateway device stays advertising and
\* connectable and the scans find it (none raises), reconnecting is false
\* again and again, however often the link is lost.
C18_NeverGivesUp ==
    /\ (reconnecting /\ sup.pc = "sleep") ~> (sup.pc = "scan")
    /\ \A d \in Addrs :
          ((<>[](d \in up)) /\ (<>[][~SupScanRaises]_vars)) => ([]<>(~reconnecting))

\* C18 witness: the supervisor is rescanning after an attempt that tried
\* every scanned device in vain.
C18_Witness ==
    /\ reconnecting
    /\ sup.pc = "scan"
    /\ was_connected = FALSE
    /\ up # {}
    /\ paused

(***************************************************************************)
(* Properties of the power manager under a lost link.                      *)
(***************************************************************************)
\* This step is an evaluation of some poll loop that dispatched a balancer
\* run which went on to nudge a node.
BalancerDispatched ==
    \E l \in Loops : /\ loops[l].pc = "settle"
                     /\ loops'[l].pc \in {"writing", "nudge_wait"}

\* C13: while the power manager is paused by the supervisor (from the
\* detection of the lost link until the supervisor resumes it), no step of
\* a poll loop dispatches a balancer run, writes a command or changes a
\* commanded_duty.
C13_PausedIdle ==
    [][(paused /\ paused' /\ loops' # loops) =>
          /\ ~BalancerDispatched
          /\ out' = <<>>
          /\ \A n \in NodeIds : CommandedOf(nodes', n) = CommandedOf(nodes, n)]_vars

(***************************************************************************)
(* Properties of disable().                                                *)
(***************************************************************************)
\* Node n is due a restore: its commanded_duty differs from a set target.
RestoreDue(n) ==
    CommandedOf(nodes, n) # TargetOf(nodes, n) /\ TargetOf(nodes, n) > 0

\* This step ends disable(): by the dict iterator raising on a node map that
\* grew, or by its return.
DisableEnds == dis.pc \in {"drain", "restore_wait"} /\ dis'.pc = "idle"
DisableRaises == DisableEnds /\ dis.pc = "restore_wait" /\ Len(order) # dis.n0
DisableReturns == DisableEnds /\ ~DisableRaises

\* C14: a step of disable() (no set_threshold having intervened) writes a
\* DUTY frame only as <n>:DUTY:<target_duty> for a node n that is due a
\* restore and that it has not handled before; it passes over no node that
\* is due a restore, and when it ends none that is due is left unhandled;
\* and it leaves every target_duty unchanged.
C14_RestoreEachOnce ==
    [][(dis' # dis /\ dis.pc # "idle" /\ threshold_mw = None) =>
          /\ out' # <<>> =>
                /\ dis'.idx > dis.idx
                /\ RestoreDue(order[dis'.idx])
                /\ out' = <<Frame(order[dis'.idx], "DUTY",
                                  TargetOf(nodes, order[dis'.idx]))>>
          /\ (dis'.idx > dis.idx) =>
                \A k \in (dis.idx + 1)..(dis'.idx - 1) : ~RestoreDue(order[k])
          /\ DisableEnds =>
                \A k \in (dis.idx + 1)..Len(order) : ~RestoreDue(order[k])
          /\ \A n \in NodeIds : TargetOf(nodes', n) = TargetOf(nodes, n)]_vars

\* C15: when disable() returns, with sensor notifications and nudge
\* confirmations (but no operator call) interleaved, threshold_mw is unset,
\* polling is false and every node's commanded_duty is 0.
C15_DisabledClean ==
    [][(DisableReturns /\ threshold_mw = None) =>
          /\ threshold_mw' = None
          /\ ~polling'
          /\ \A n \in NodeIds : CommandedOf(nodes', n) = 0]_vars

(***************************************************************************)
(* Properties of the node map.                                             *)
(***************************************************************************)
\* C16: every node of the power manager's node map has had a parseable
\* reading received (known_nodes records exactly those), and no step removes
\* a node from the map.
C16_MapMembership ==
    [][/\ DOMAIN nodes' \subseteq known_nodes'
       /\ DOMAIN nodes \subseteq DOMAIN nodes']_vars

(***************************************************************************)
(* Properties of reassembly across connections.                            *)
(***************************************************************************)
\* C17: after a disconnect (disconnect(), or a lost link handled by the
\* supervisor) no payload buffered on the old connection is concatenated
\* into a message emitted later: every message the handler emits is the
\* message the peer sent on the current connection.
C17_NoStaleChunks ==
    [][(Len(emitted') > Len(emitted)) => emitted'[Len(emitted')] = orig]_vars

(***************************************************************************)
(* Properties of the poll cycle.                                           *)
(***************************************************************************)
GroupRead == Frame(ALL, "READ", None)

\* Staleness marking comes before the evaluation: a loop reaches the settle
\* gap with every overdue node marked unresponsive, and the evaluation
\* starts from the settle gap only.
StaleBeforeEvaluate ==
    \A l \in Loops :
        /\ (loops[l].pc # "settle" /\ loops'[l].pc = "settle") =>
              \A n \in DOMAIN nodes :
                  nodes[n].age > STALE_TIMEOUT => ~nodes'[n].responsive
        /\ (loops[l].pc # loops'[l].pc
              /\ loops'[l].pc \in {"interval", "writing", "nudge_wait"}) =>
              loops[l].pc \in {"settle", "writing", "nudge_wait"}

\* C19 as stated: every cycle of the poll loop increments poll_generation by
\* exactly one, emits exactly one ALL:READ group poll and marks stale nodes
\* before its single evaluation; poll_generation never decreases.
C19_EveryCyclePolls ==
    [][/\ poll_generation' >= poll_generation
       /\ poll_generation' # poll_generation =>
             /\ poll_generation' = poll_generation + 1
             /\ out' = <<GroupRead>>
       /\ StaleBeforeEvaluate]_vars

\* C19 amended: every cycle increments poll_generation by exactly one and
\* emits exactly one ALL:READ when the node map is non-empty and the gateway
\* is connected and not reconnecting, and none otherwise; stale nodes are
\* marked before the cycle's single evaluation; poll_generation never
\* decreases.
C19_CyclePollsKnownNodes ==
    [][/\ poll_generation' >= poll_generation
       /\ poll_generation' # poll_generation =>
             /\ poll_generation' = poll_generation + 1
             /\ out' = IF DOMAIN nodes # {} /\ client = "up" /\ ~reconnecting
                       THEN <<GroupRead>> ELSE <<>>
       /\ StaleBeforeEvaluate]_vars

\* A cycle has started with a node in the map and its group READ is written.
C19_Witness ==
    /\ poll_generation >= 1
    /\ DOMAIN nodes # {}
    /\ out = <<GroupRead>>
    /\ \E l \in Loops : loops[l].pc = "wait_resp"

(***************************************************************************)
(* Properties of the cooldown.                                             *)
(***************************************************************************)
\* C20: an evaluation that is not forced and starts less than COOLDOWN after
\* the last completed balancer run is skipped: it writes no command, leaves
\* the node map and the adjustment time alone and the cycle goes to its
\* interval sleep; so an evaluation that dispatches the balancer less than
\* COOLDOWN after the last run is a forced one.
C20_Cooldown ==
    [][\A l \in Loops :
          /\ (Evaluate(l) /\ ~force_evaluate /\ since < COOLDOWN) =>
                /\ out' = <<>>
                /\ loops'[l].pc = "interval"
                /\ UNCHANGED <<nodes, since, adjusting, force_evaluate>>
          /\ (Evaluate(l) /\ (loops'[l].pc \in {"writing", "nudge_wait"}
                                \/ since' # since)) =>
                (force_evaluate \/ since >= COOLDOWN)]_vars

\* An unforced evaluation is due inside the cooldown with the nodes out of
\* balance: without the cooldown the balancer would run.
C20_Witness ==
    \E l \in Loops :
        /\ loops[l].pc = "settle"
        /\ threshold_mw # None
        /\ ~force_evaluate
        /\ since < COOLDOWN
        /\ EvalKind = "skip_cooldown"
        /\ Responsive(nodes) # {}
        /\ Budget > 0
        /\ ~InDeadband(SumPower(nodes, Responsive(nodes)), Budget)

(***************************************************************************)
(* Properties of the forced evaluation.                                    *)
(***************************************************************************)
\* C21: an evaluation that is skipped because no node is responsive or
\* because the budget is not positive leaves force_evaluate set.
C21_SkipKeepsForce ==
    [][\A l \in Loops :
          (Evaluate(l) /\ force_evaluate
             /\ EvalKind \in {"skip_noresp", "skip_budget"}) => force_evaluate']_vars

\* C22: a forced re-evaluation is never lost: the flag set by set_threshold,
\* set_priority or clear_priority is consumed only by an evaluation that
\* has a responsive node and a positive budget and dispatches the balancer,
\* so the next such evaluation after the call runs as forced.
C22_ForceNeverLost ==
    [][(force_evaluate /\ ~force_evaluate') =>
          \E l \in Loops : /\ Evaluate(l)
                           /\ Responsive(nodes) # {}
                           /\ Budget > 0
                           /\ EvalKind = "run"]_vars

(***************************************************************************)
(* Properties of the evaluation's skip conditions.                         *)
(***************************************************************************)
\* sum of the power of the responsive nodes
TotalPower == SumPower(nodes, Responsive(nodes))

\* C23: an evaluation that is not forced and finds the total power of the
\* responsive nodes within 5 % of the budget issues no DUTY command and
\* leaves last_adjustment and every node's commanded_duty unchanged.
C23_DeadBand ==
    [][\A l \in Loops :
          (/\ Evaluate(l)
           /\ threshold_mw # None
           /\ ~force_evaluate
           /\ 20 * Abs(TotalPower - Budget) < Budget) =>
             /\ out' = <<>>
             /\ since' = since
             /\ loops'[l].pc = "interval"
             /\ \A n \in DOMAIN nodes :
                   nodes'[n].commanded_duty = nodes[n].commanded_duty]_vars

\* An unforced evaluation is due outside the cooldown with the total inside
\* the dead band, and a node is below its share.
C23_Witness ==
    \E l \in Loops :
        /\ loops[l].pc = "settle"
        /\ EvalKind = "skip_deadband"
        /\ 20 * Abs(TotalPower - Budget) < Budget
        /\ TotalPower # Budget

\* Node n is out of sync: the duty it reports is not the commanded one.
OutOfSync(ns) == ns.commanded_duty > 0 /\ Abs(ns.duty - ns.commanded_duty) > SYNC_TOL

\* An unforced evaluation gets as far as the ceiling test, outside the dead band.
AtCeilingTest ==
    /\ threshold_mw # None
    /\ ~adjusting
    /\ ~force_evaluate
    /\ since >= COOLDOWN
    /\ Responsive(nodes) # {}
    /\ Budget > 0
    /\ 20 * Abs(TotalPower - Budget) >= Budget

\* C24: an unforced evaluation outside the dead band is skipped when every
\* responsive node is at its ceiling, every commanded node is in sync and
\* the total is within the budget; when all are at ceiling but some node is
\* out of sync, the evaluation is not skipped and a DUTY command is
\* re-issued to an out-of-sync node.
C24_CeilingShortCircuit ==
    [][\A l \in Loops :
          (Evaluate(l) /\ AtCeilingTest
             /\ \A n \in Responsive(nodes) :
                   nodes[n].target_duty > 0
                      /\ nodes[n].commanded_duty >= nodes[n].target_duty) =>
             IF \E n \in Responsive(nodes) : OutOfSync(nodes[n])
             THEN \E n \in Responsive(nodes) :
                     /\ OutOfSync(nodes[n])
                     /\ loops'[l].pc \in {"writing", "nudge_wait"}
                     /\ loops'[l].cur = n
             ELSE TotalPower <= Budget =>
                     (out' = <<>> /\ loops'[l].pc = "interval" /\ since' = since)]_vars

(***************************************************************************)
(* Properties of the balancer's computations.                              *)
(***************************************************************************)
\* Sum of the shares a run with locals lp hands to the nodes of S.
RECURSIVE SumShares(_, _)
SumShares(lp, S) ==
    IF S = {} THEN RInt(0)
    ELSE LET x == CHOOSE y \in S : TRUE
         IN RAdd(ShareOf(lp, x), SumShares(lp, S \ {x}))

\* The shares as the claim states them, <<priority share, share of each
\* other node>>, for the responsive set R of node map nd: the priority
\* share is capped by target_duty x mw_per_pct.
StatedShares(nd, R, budget) ==
    LET k == Cardinality(R) - 1
        other == Norm(<<budget, PRIORITY_WEIGHT + k>>)
        full == RMul(RInt(PRIORITY_WEIGHT), other)
        cap == RMul(RInt(nd[priority_node].target_duty),
                    EstimateMwPerPct(nd, priority_node, R))
    IN IF RLt(cap, full) /\ k > 0
       THEN <<cap, RDiv(RSub(RInt(budget), cap), RInt(k))>>
       ELSE <<full, other>>

\* C25: a dispatched balancer run is in priority mode exactly when a
\* priority node is set and responsive, otherwise every share is budget/n;
\* in priority mode the priority share is PRIORITY_WEIGHT times each other
\* share unless the priority node's ceiling power (target_duty x mw_per_pct)
\* is below it and other nodes exist, when it is capped to that and the rest
\* is split equally; the shares always sum to the budget.
C25_Shares ==
    [][\A l \in Loops :
          (Evaluate(l) /\ EvalKind = "run") =>
             LET lp == loops'[l]
                 R == lp.resp
                 pm == priority_node # None /\ priority_node \in R
             IN /\ R = Responsive(nodes)
                /\ (lp.pri # None) <=> pm
                /\ pm => lp.pri = priority_node
                /\ ~pm => \A n \in R : ShareOf(lp, n) = Norm(<<Budget, Cardinality(R)>>)
                /\ pm => LET st == StatedShares(nodes', R, Budget)
                         IN \A n \in R : ShareOf(lp, n) =
                                            IF n = priority_node THEN st[1] ELSE st[2]
                /\ SumShares(lp, R) = RInt(Budget)]_vars

\* The quantity the claim gives for one node: power/commanded_duty, else
\* power/duty; <<0, 1>> stands for "this node has no data".
OwnEstimate(ns) ==
    IF ns.commanded_duty > 0 /\ ns.power > 0 THEN Norm(<<ns.power, ns.commanded_duty>>)
    ELSE IF ns.duty > 0 /\ ns.power > 0 THEN Norm(<<ns.power, ns.duty>>)
    ELSE RInt(0)

RECURSIVE SumOwn(_, _)
SumOwn(nd, S) ==
    IF S = {} THEN RInt(0)
    ELSE LET x == CHOOSE y \in S : TRUE
         IN RAdd(OwnEstimate(nd[x]), SumOwn(nd, S \ {x}))

StatedEstimate(nd, nid, S) ==
    LET withData == {m \in S : OwnEstimate(nd[m]) # RInt(0)}
    IN IF OwnEstimate(nd[nid]) # RInt(0) THEN OwnEstimate(nd[nid])
       ELSE IF withData # {}
            THEN RDiv(SumOwn(nd, withData), RInt(Cardinality(withData)))
            ELSE RInt(50)

\* C26 as stated: the mw-per-pct estimate of a node that is nudged is
\* power/commanded_duty when both are positive, else power/duty when both
\* are positive, else the average of that quantity over all nodes of the
\* node map that have data, else 50; it is strictly positive.
C26_EstimateAllNodes ==
    \A n \in Responsive(nodes) :
        LET e == EstimateMwPerPct(nodes, n, Responsive(nodes))
        IN /\ e = StatedEstimate(nodes, n, DOMAIN nodes)
           /\ e[1] > 0 /\ e[2] > 0

\* C26 amended: the mw-per-pct estimate of a node is power/commanded_duty when both
\* are positive, else power/duty when both are positive, else the average
\* of that quantity over the nodes of the map handed to the balancer (the
\* responsive ones) that have data, else 50; it is strictly positive.
C26_Estimate ==
    \A n \in DOMAIN nodes :
        LET e == EstimateMwPerPct(nodes, n, Responsive(nodes))
        IN /\ e = StatedEstimate(nodes, n, Responsive(nodes))
           /\ e[1] > 0 /\ e[2] > 0

\* A balancer run is nudging while one responsive node has no data of its own
\* and another has: the estimate of the first is the average.
C26_Witness ==
    \E l \in Loops :
        /\ loops[l].pc \in {"writing", "nudge_wait"}
        /\ \E n, m \in loops[l].resp :
              /\ OwnEstimate(nodes[n]) = RInt(0)
              /\ OwnEstimate(nodes[m]) # RInt(0)

\* The duty the claim gives for a nudge of node nid with the share sh.
StatedNewDuty(nd, nid, sh, S) ==
    LET ideal == RDiv(sh, StatedEstimate(nd, nid, S))
        ceil == IF nd[nid].target_duty > 0 THEN nd[nid].target_duty ELSE 100
        clamped == IF RLt(ideal, RInt(0)) THEN RInt(0)
                   ELSE IF RLt(RInt(ceil), ideal) THEN RInt(ceil) ELSE ideal
    IN Round(clamped)

StatedCurrent(ns) == IF ns.commanded_duty > 0 THEN ns.commanded_duty ELSE ns.duty

\* The nodes the balancer of loop l has still to process before this step.
Pending(l) ==
    IF loops[l].pc = "settle" THEN loops'[l].resp ELSE SeqToSet(loops[l].queue)

\* This step runs the balancer of loop l on: from an evaluation that
\* dispatches it, or from a response wait that has returned.
BalancerStep(l) == (Evaluate(l) /\ EvalKind = "run") \/ NudgeWaitDone(l)

C28_ConfirmOrKeep ==
    [][\A l \in Loops :
          NudgeWaitDone(l) =>
             LET n == loops[l].cur
             IN /\ nodes'[n].commanded_duty =
                      IF evt[l] THEN loops[l].newd ELSE nodes[n].commanded_duty
                /\ n \notin SeqToSet(loops'[l].queue)
                /\ loops'[l].cur # n
                /\ \A i \in 1..Len(out') : out'[i][1] # n]_vars

\* The wait of a nudge is pending, unconfirmed so far, for a duty other than
\* the commanded one.
C28_Witness ==
    \E l \in Loops :
        /\ loops[l].pc = "nudge_wait"
        /\ ~evt[l]
        /\ loops[l].newd # nodes[loops[l].cur].commanded_duty
        /\ loops[l].queue # <<>>

\* Loop l has a DUTY command of its balancer in flight after this step.
Sending(l) == loops'[l].pc \in {"writing", "nudge_wait"}

\* Commands of a balancer run go out one at a time: a DUTY frame is written
\* only by an evaluation that dispatches a run or when the response wait of
\* the previous nudge has returned, and one frame at a time.
OneAtATime ==
    /\ Len(out') <= 1
    /\ (\E i \in 1..Len(out') : out'[i][2] = "DUTY") => \E l \in Loops : BalancerStep(l)

\* C29 as stated: within one balancer run, in equal and in priority mode
\* alike, the nodes are commanded in ascending node-id order, one at a
\* time.
C29_Ascending ==
    [][/\ OneAtATime
       /\ \A l \in Loops :
             (NudgeWaitDone(l) /\ Sending(l)) => loops'[l].cur > loops[l].cur]_vars

\* C29 amended: within one balancer run the nodes are commanded one at a
\* time; in equal mode in ascending node-id order, in priority mode the
\* priority node first and the others after it in ascending order.
C29_PriorityFirstThenAscending ==
    [][/\ OneAtATime
       /\ \A l \in Loops :
             (NudgeWaitDone(l) /\ Sending(l)) =>
                /\ loops'[l].cur # loops'[l].pri
                /\ loops[l].cur # loops[l].pri => loops'[l].cur > loops[l].cur]_vars

\* A priority run is nudging its priority node 2 first, with node 1 queued.
C29_Witness ==
    \E l \in Loops :
        /\ loops[l].pc = "nudge_wait"
        /\ loops[l].pri = 2
        /\ loops[l].cur = 2
        /\ loops[l].queue = <<1>>

(***************************************************************************)
(* Properties of the polling flag.                                         *)
(***************************************************************************)
\* The poll loops that are inside a cycle (group poll, response wait,
\* settle gap, evaluation and balancer, interval sleep).
Cycling == {l \in AllLoops :
              loops[l].pc \in {"wait_resp", "settle", "writing", "nudge_wait", "interval"}}

\* C30: for any sequence of set_threshold, poll_loop starts and disable()
\* calls, at most one poll loop is executing cycles at any time.
C30_SingleCycleLoop == Cardinality(Cycling) <= 1

(***************************************************************************)
(* Properties of the adjusting flag.                                       *)
(***************************************************************************)
\* The poll loops whose balancer run is in flight (a DUTY write or a nudge's
\* response wait is pending).
InFlight == {l \in AllLoops : loops[l].pc \in {"writing", "nudge_wait"}}

\* C31: the adjusting flag is a mutual exclusion: at most one balancer run
\* is in flight at any time, also when set_threshold is called while a run
\* is in flight.
C31_OneRunInFlight == Cardinality(InFlight) <= 1

(***************************************************************************)
(* Properties of cancellation.                                             *)
(***************************************************************************)
\* The suspension points of a cycling poll loop.
CycleSuspensions == {"wait_resp", "settle", "writing", "nudge_wait", "interval"}

\* C32: a poll loop cancelled at a suspension point of its cycle (response
\* wait, settle sleep, a nudge's write or response wait, interval sleep)
\* exits with polling false and, no other run being in flight, adjusting
\* false; no response latch is left registered to it; the step writes
\* nothing and the coroutine is gone, so it writes nothing afterwards.
C32_CancelClean ==
    [][\A l \in Loops :
          (CancelLoop(l) /\ loops[l].pc \in CycleSuspensions) =>
             /\ polling' = FALSE
             /\ (InFlight \subseteq {l}) => adjusting' = FALSE
             /\ \A n \in DOMAIN node_events : node_events'[n] # l
             /\ out' = <<>>
             /\ loops'[l] = IdleLoop]_vars

\* A poll loop that was cycling has been cancelled while the threshold is set
\* and a node is known: no loop is left, and neither flag nor latch remains.
C32_Witness ==
    /\ last = "cancel"
    /\ threshold_mw # None
    /\ poll_generation > 0
    /\ DOMAIN nodes # {}
    /\ \A l \in Loops : loops[l].pc = "idle"
    /\ ~polling /\ ~adjusting
    /\ \A n \in DOMAIN node_events : node_events[n] = NoWaiter

(***************************************************************************)
(* Properties of the discovery bootstrap.                                  *)
(***************************************************************************)
\* This step of loop l is a bootstrap probe of address n: it writes n:READ.
ProbeSent(l, n) ==
    /\ loops'[l].pc \in {"seed_writing", "probe_writing"}
    /\ loops[l].pc \notin {"seed_writing", "probe_writing"}
    /\ loops'[l].cur = n
    /\ out' = <<Frame(n, "READ", None)>>

\* C33: the bootstrap probes addresses of 1..sensing_node_count only, one
\* READ per address that is not in the node map, in ascending order, each
\* probe sent when the response wait of the previous one has returned; and
\* no bootstrap step adds a node to the node map.
C33_Bootstrap ==
    [][\A l \in Loops : \A n \in NodeIds :
          ProbeSent(l, n) =>
             /\ n \in 1..sensing_node_count
             /\ n \notin DOMAIN nodes
             /\ loops[l].pc \in {"start", "guard", "seed_wait", "probe_wait"}
             /\ loops[l].cur # None => n > loops[l].cur
             /\ nodes' = nodes]_vars

(***************************************************************************)
(* Properties of the responsive flag.                                      *)
(***************************************************************************)
\* A parsed reading of node n is delivered to the power manager in this step.
ReadingOf(n) ==
    hasPM /\ \E r \in ReadingsPri[n] : SensorReading(n, r[1], r[2])

\* C34: a node's responsive flag becomes false only in the staleness scan
\* and only when its last reading is older than STALE_TIMEOUT; a parsed
\* reading from the node sets the flag and refreshes last_seen; a balancer
\* run counts and shares over the nodes responsive at its evaluation only,
\* and nudges none but those.
C34_Responsive ==
    [][/\ \A n \in DOMAIN nodes :
             (nodes[n].responsive /\ ~nodes'[n].responsive) =>
                /\ \E l \in Loops : WaitRespDone(l)
                /\ nodes[n].age > STALE_TIMEOUT
       /\ \A n \in DOMAIN ReadingsPri :
             ReadingOf(n) => (nodes'[n].responsive /\ nodes'[n].age = 0)
       /\ \A l \in Loops :
             /\ (Evaluate(l) /\ EvalKind = "run") =>
                   /\ loops'[l].resp = {n \in DOMAIN nodes : nodes[n].responsive}
                   /\ loops'[l].pri = None =>
                         loops'[l].oshare = Norm(<<Budget, Cardinality(loops'[l].resp)>>)
                   /\ loops'[l].pri # None =>
                         loops'[l].pri \in loops'[l].resp
             /\ (BalancerStep(l) /\ Sending(l)) =>
                   /\ loops'[l].cur \in loops'[l].resp
                   /\ SeqToSet(loops'[l].queue) \subseteq loops'[l].resp]_vars

\* A balancer run is nudging a node while another node of the map, marked
\* unresponsive by the staleness scan, is left out of it.
C34_Witness ==
    \E l \in Loops : \E n \in DOMAIN nodes :
        /\ loops[l].pc = "nudge_wait"
        /\ ~nodes[n].responsive
        /\ n \notin loops[l].resp
        /\ loops[l].cur # n

(***************************************************************************)
(* Termination.                                                            *)
(***************************************************************************)
\* C35 (disable): once disable() has been called, and unless the threshold
\* is set again, disable() itself returns.
C35_DisableReturns ==
    (dis.pc = "drain") ~> (last = "disable_returned" \/ threshold_mw # None)

(***************************************************************************)
(* Properties of a disabled power manager.                                 *)
(***************************************************************************)
\* disable() has been called and has ended, and the threshold has not been
\* set since.
DisabledNow == hasPM /\ threshold_mw = None /\ dis.pc = "idle"

\* C36: once disable() has returned, and until the threshold is set again,
\* the power manager writes no DUTY command: a balancer run that was in
\* flight when disable() was called nudges none of its remaining nodes.
C36_NoDutyAfterDisable ==
    [][(DisabledNow /\ threshold_mw' = None) =>
          \A i \in 1..Len(out') : out'[i][2] # "DUTY"]_vars

(***************************************************************************)
(* Properties of commands the transport refuses.                           *)
(***************************************************************************)
\* C37, for a write refused because the session is reconnecting: a nudge
\* sets commanded_duty to new_duty only if its DUTY frame was written to the
\* transport; when the write was refused, commanded_duty is unchanged when
\* the response wait returns, even if a reading of the node arrived during
\* the wait.
C37_ConfirmOnlyIfWritten ==
    [][\A l \in Loops :
          (NudgeWaitDone(l) /\ loops[l].sent = "reconnecting") =>
             CommandedOf(nodes', loops[l].cur) = CommandedOf(nodes, loops[l].cur)]_vars

\* This step is an operator set_duty that the transport refuses.
SetDutyRefused ==
    /\ hasPM
    /\ \E n \in {1, ALL}, p \in PctVals : SetDuty(n, p)
    /\ out' = <<>>

\* C38: an operator set_duty that is rejected because the session is not
\* connected or is reconnecting leaves the power manager's state unchanged:
\* no target_duty or commanded_duty is modified and no node is added to
\* the node map.
C38_RefusedSetDutyNoEffect ==
    [][SetDutyRefused => (nodes' = nodes /\ order' = order)]_vars

(***************************************************************************)
(* Properties of overlapping response waits.                               *)
(***************************************************************************)
\* Loop l is in the response wait of a nudge of node n.
NudgeWaiting(l, n) == loops[l].pc = "nudge_wait" /\ loops[l].cur = n

\* disable() is in the response wait of its restore of node n.
RestoreWaiting(n) == dis.pc = "restore_wait" /\ order[dis.idx] = n

ReEnable ==
    /\ DisabledNow
    /\ InFlight = {}
    /\ threshold_mw' # None

\* C40: re-enabling after a disable never latches a PM-reduced duty as the
\* new ceiling: with no operator duty command in between, every node's
\* target_duty after the second set_threshold is not lower than it was
\* before the disable().
C40_ReEnableKeepsCeiling ==
    [][ReEnable =>
          \A n \in DOMAIN nodes : TargetOf(nodes', n) >= TargetOf(nodes, n)]_vars

====
